---- MODULE Spec2Model ----
(***************************************************************************)
(* A model of jackchuma/state-diff: the caching state store that records   *)
(* a before/after diff of every slot a simulated call touches, the         *)
(* override applicator, the slot/contract configuration resolver and the   *)
(* Markdown / JSON diff renderers.                                         *)
(*                                                                         *)
(* The repository holds the store twice: internal/state/caching.go and the *)
(* later text of package state that follows package evm in                 *)
(* internal/evm/evm.go.  The variable build says which of the two texts    *)
(* the process was built from; every operation that differs between them   *)
(* is modelled once per text.                                              *)
(*                                                                         *)
(* A 256-bit word (common.Hash) is a small natural number, 0 the zero      *)
(* hash.  A byte string revealed as a hash preimage is the sequence of its *)
(* 32-byte words, so a 64-byte preimage is a sequence of length 2.         *)
(***************************************************************************)
EXTENDS Integers, Sequences, FiniteSets, TLC

\* ---------------------------------------------------------------- bounds
\* Calls the execution engine makes on the store during one simulation.
MaxSteps == 2

\* ------------------------------------------------------------- universes
Builds == {"caching.go", "evm.go"}
\* Two contract addresses (their numeric value; one hex digit each).
Addrs == {11, 12}
\* Storage slot keys (one hex digit each, one of them a letter) and words.
Keys == {1, 10}
Vals == {0, 1}
\* Hashes the engine may reveal a preimage for: the slot keys and one more.
Hash == {1, 3, 10}
Nonces == {0, 1}

\* common.Hash{}
ZeroHash == 0
Nil == 0
BalanceMod == 4
\* The outcome "err != nil" of a remote fetch.
FetchErr == -1
FetchOutcomes == Vals \cup {FetchErr}
NonceOutcomes == Nonces \cup {FetchErr}

\* ------------------------------------------------------------- Go maps
\* A Go map (or sync.Map) is a function on the set of keys it holds.
EmptyMap == [x \in {} |-> 0]
Put(f, k, v) == [x \in (DOMAIN f) \cup {k} |-> IF x = k THEN v ELSE f[x]]

VARIABLES
    fetched,    \* the remote reads the store has issued, as <<method, address, key>>
    lastWrite,  \* history: (address, slot) -> the value last written or overridden
    balanceLog, \* history: address -> the balance read at its first addBalance/subBalance
                \* and the net amount added since
    firstBefore, \* history: (address, slot) -> what a read gave just before its first write
    simResult,  \* what SimulateTransaction returned: [diffs, isNil, err]
    build,      \* which text of package state the process runs
    phase,      \* "new" | "sim" | "panicked"; "simulated" once the diffs are final;
                \* "idle" where no store is in play
    cache,      \* CachingStateDB.cache
    diffs,      \* CachingStateDB.diffs: address -> StateDiff
    preimages,  \* CachingStateDB.preimages: hash -> revealed preimage
    Overrides,  \* CachingStateDB.Overrides
    written,    \* history: the (address, key, value) writes the simulation has made
    steps,      \* calls made by the engine so far
    doc,        \* the embedded configuration document
    cfgPhase,   \* "embedded" | "loaded" | "failed"
    cfg,        \* FileGenerator.cfg: the loaded configuration
    chainId,    \* FileGenerator.chainId
    lookupAddr, \* getContractCfg: the address string last asked for ("" as <<>>: none yet)
    lookupResult, \* getContractCfg: the Contract it returned
    decodeType,   \* getDecodedValue: the slotType argument
    decodeValue,  \* getDecodedValue: the value argument, a hex string
    decodePc,     \* getDecodedValue: "call" | "done"
    sigParser,    \* the parser called: "parseSigningData" | "parseInput"
    sigInput,     \* its input text
    sigPc,        \* "call" | "done"
    sigResult,    \* what it returned: error flag, domain hash, message hash
    mainPc,       \* main: the statement it is at
    flags,        \* main: the command line
    failure,      \* main: the failure it met, "" when none
    exitStatus,   \* main: the process's exit status, Running until it ends
    heap,         \* the uint256.Int objects allocated so far; a pointer is an index
    lastCall,     \* the store method the engine called last, and what it returned
    decodeResult,      \* getDecodedValue: the string returned
    safe,       \* the safe address the report is rendered for
    template,   \* FileGenerator.template (the Markdown generator)
    outs,       \* history: what each rendering returned, in call order
    slotTable,  \* getSlot: the Slots table of the contract passed in
    slotKey,    \* getSlot: the slot key passed in
    slotPc,     \* getSlot: "call" | "loop" | "done"
    slotCur,    \* getSlot: the local variable slot, as 32-byte words
    slotResult, \* getSlot: the Slot returned
    slotChain   \* history: the hashes getSlot asked the registry about, in order

simVars == <<simResult>>
storeVars == <<build, phase, cache, diffs, preimages, Overrides, fetched, written, steps>>
histVars == <<lastWrite, firstBefore, balanceLog>>
cfgVars == <<doc, cfgPhase, cfg, chainId, lookupAddr, lookupResult>>
callVars == <<heap, lastCall>>
sigVars == <<sigParser, sigInput, sigPc, sigResult>>
mainVars == <<mainPc, flags, failure, exitStatus>>
decodeVars == <<decodeType, decodeValue, decodePc, decodeResult>>
renderVars == <<safe, template, outs>>
slotVars == <<slotTable, slotKey, slotPc, slotCur, slotResult, slotChain>>

\* ------------------------------------------------------------ cache keys
\* Keccak256(addr ++ "balance") and Keccak256(addr ++ "code").
getBalanceCacheKey(addr) == <<"balance", addr>>
getCodeCacheKey(addr) == <<"code", addr>>

\* common.BytesToHash(addr.Bytes()): the address left-padded to 32 bytes.
getNonceCacheKey(addr) == <<"hash", addr>>

\* caching.go: common.BytesToHash of the 52 bytes addr ++ key keeps the last
\* 32 bytes, which are the key alone.
CachingGetStorageCacheKey(addr, key) == <<"hash", key>>

\* evm.go: Keccak256(addr ++ key), injective in (addr, key).
EvmGetStorageCacheKey(addr, key) == <<"keccak", addr, key>>

getStorageCacheKey(addr, key) ==
    IF build = "caching.go" THEN CachingGetStorageCacheKey(addr, key)
    ELSE EvmGetStorageCacheKey(addr, key)

\* ------------------------------------------------------------ diff model
NewStateDiff(addr) ==
    [Address |-> addr, BalanceBefore |-> Nil, BalanceAfter |-> Nil,
     NonceSeen |-> FALSE, NonceBefore |-> 0, NonceAfter |-> 0,
     StorageDiffs |-> EmptyMap]

getStateDiff(ds, addr) ==
    IF addr \in DOMAIN ds THEN ds[addr] ELSE NewStateDiff(addr)

\* A fresh StorageDiff{Key: key}: every other field has its zero value.
getStorageDiff(stateDiff, key) ==
    IF key \in DOMAIN stateDiff.StorageDiffs THEN stateDiff.StorageDiffs[key]
    ELSE [Key |-> key, ValueBefore |-> ZeroHash, ValueAfter |-> ZeroHash,
          Preimage |-> <<>>, isSet |-> FALSE]

\* db.preimages[key]: the empty string when nothing was recorded.
PreimageOf(pre, hash) == IF hash \in DOMAIN pre THEN pre[hash] ELSE <<>>

\* ----------------------------------------------------------------- reads
\* GetState: a cache hit returns the entry; a miss fetches, and a fetch that
\* fails returns the zero hash and stores nothing.
GetState(db, addr, key, fetch) ==
    LET ck == getStorageCacheKey(addr, key) IN
    IF ck \in DOMAIN db.cache THEN [db |-> db, value |-> db.cache[ck]]
    ELSE LET asked == [db EXCEPT !.fetched = @ \cup {<<"StorageAt", addr, key>>}] IN
         IF fetch = FetchErr THEN [db |-> asked, value |-> ZeroHash]
         ELSE [db |-> [asked EXCEPT !.cache = Put(@, ck, fetch)], value |-> fetch]

\* A GetNonce that asks the node on every call.
GetNonceUncached(db, addr, fetch) ==
    LET asked == [db EXCEPT !.fetched = @ \cup {<<"NonceAt", addr, 0>>}] IN
    IF fetch = FetchErr THEN [db |-> asked, value |-> 0]
    ELSE [db |-> [asked EXCEPT !.cache = Put(@, getNonceCacheKey(addr), fetch)], value |-> fetch]

GetNonce(db, addr, fetch) ==
    LET ck == getNonceCacheKey(addr) IN
    IF ck \in DOMAIN db.cache THEN [db |-> db, value |-> db.cache[ck]]
    ELSE LET asked == [db EXCEPT !.fetched = @ \cup {<<"NonceAt", addr, 0>>}] IN
         IF fetch = FetchErr THEN [db |-> asked, value |-> 0]
         ELSE [db |-> [asked EXCEPT !.cache = Put(@, ck, fetch)], value |-> fetch]

\* A *uint256.Int is an index into the heap hp of allocated integers; Nil is
\* the nil pointer.  uint256 arithmetic wraps at BalanceMod.
\* A GetBalance that caches the zero it returns for a failed fetch.
GetBalanceCachingZero(db, hp, addr, fetch) ==
    LET ck == getBalanceCacheKey(addr)
        fresh == Len(hp) + 1
        asked == [db EXCEPT !.fetched = @ \cup {<<"BalanceAt", addr, 0>>}]
    IN  IF ck \in DOMAIN db.cache THEN [db |-> db, heap |-> hp, ptr |-> db.cache[ck]]
        ELSE [db |-> [asked EXCEPT !.cache = Put(@, ck, fresh)],
              heap |-> Append(hp, IF fetch = FetchErr THEN 0 ELSE fetch), ptr |-> fresh]

\* GetBalance: a cache hit returns the cached pointer; a miss fetches; a
\* fetch that fails returns a new zero and stores nothing.
GetBalance(db, hp, addr, fetch) ==
    LET ck == getBalanceCacheKey(addr)
        fresh == Len(hp) + 1
        asked == [db EXCEPT !.fetched = @ \cup {<<"BalanceAt", addr, 0>>}]
    IN  IF ck \in DOMAIN db.cache THEN [db |-> db, heap |-> hp, ptr |-> db.cache[ck]]
        ELSE IF fetch = FetchErr THEN [db |-> asked, heap |-> Append(hp, 0), ptr |-> fresh]
        ELSE [db |-> [asked EXCEPT !.cache = Put(@, ck, fresh)],
              heap |-> Append(hp, fetch), ptr |-> fresh]

\* GetCode: the same pattern; a fetch that fails returns nil.
GetCode(db, addr, fetch) ==
    LET ck == getCodeCacheKey(addr) IN
    IF ck \in DOMAIN db.cache THEN [db |-> db, code |-> db.cache[ck]]
    ELSE LET asked == [db EXCEPT !.fetched = @ \cup {<<"CodeAt", addr, 0>>}] IN
         IF fetch.err THEN [db |-> asked, code |-> <<>>]
         ELSE [db |-> [asked EXCEPT !.cache = Put(@, ck, fetch.code)], code |-> fetch.code]

\* ---------------------------------------------------------------- writes
\* AddBalance (sign 1) and SubBalance (sign -1).  balanceBefore is the
\* pointer GetBalance returns; stateDiff.BalanceAfter is written through its
\* pointer, and the return value is read after that write: evm.go reads
\* *balanceBefore, caching.go *stateDiff.BalanceAfter.
changeBalance(db, hp, addr, amount, sign, fetch) ==
    LET stateDiff == getStateDiff(db.diffs, addr)
        got == GetBalance(db, hp, addr, fetch)
        balanceBefore == got.ptr
        withBefore == IF stateDiff.BalanceBefore = Nil
                      THEN [stateDiff EXCEPT !.BalanceBefore = balanceBefore]
                      ELSE stateDiff
        allocated == IF withBefore.BalanceAfter = Nil THEN Append(got.heap, 0) ELSE got.heap
        withAfter == IF withBefore.BalanceAfter = Nil
                     THEN [withBefore EXCEPT !.BalanceAfter = Len(allocated)]
                     ELSE withBefore
        written2 == [allocated EXCEPT ![withAfter.BalanceAfter] =
                        (allocated[balanceBefore] + sign * amount) % BalanceMod]
    IN  [db |-> [got.db EXCEPT !.diffs = Put(@, addr, withAfter),
                               !.cache = Put(@, getBalanceCacheKey(addr),
                                             withAfter.BalanceAfter)],
         heap |-> written2,
         before |-> got.heap[balanceBefore],
         value |-> IF build = "caching.go" THEN written2[withAfter.BalanceAfter]
                   ELSE written2[balanceBefore]]

\* An AddBalance that captures balanceBefore again on every call.
AddBalanceRecapturing(db, hp, addr, amount, fetch) ==
    LET forgotten == IF addr \in DOMAIN db.diffs
                     THEN Put(db.diffs, addr, [db.diffs[addr] EXCEPT !.BalanceBefore = Nil])
                     ELSE db.diffs
    IN  changeBalance([db EXCEPT !.diffs = forgotten], hp, addr, amount, 1, fetch)

AddBalance(db, hp, addr, amount, fetch) == changeBalance(db, hp, addr, amount, 1, fetch)
SubBalance(db, hp, addr, amount, fetch) == changeBalance(db, hp, addr, amount, -1, fetch)

\* evm.go setState: the first write of a key (isSet false) captures
\* valueBefore, which for an override-seeding write is the written value.
setState(db, addr, key, value, isOverride, fetch) ==
    LET stateDiff == getStateDiff(db.diffs, addr)
        storageDiff == getStorageDiff(stateDiff, key)
        got == GetState(db, addr, key, fetch)
        valueBefore == IF isOverride THEN value ELSE got.value
        captured == IF ~storageDiff.isSet
                    THEN [storageDiff EXCEPT !.ValueBefore = valueBefore, !.isSet = TRUE]
                    ELSE storageDiff
        stamped == [captured EXCEPT !.ValueAfter = value,
                                    !.Preimage = PreimageOf(db.preimages, key)]
        newDiff == [stateDiff EXCEPT !.StorageDiffs = Put(@, key, stamped)]
    IN  [db |-> [got.db EXCEPT !.diffs = Put(@, addr, newDiff),
                               !.cache = Put(@, getStorageCacheKey(addr, key), value)],
         value |-> valueBefore]

\* caching.go SetState: valueBefore is captured while the recorded one is the
\* zero hash; the call returns the written value.
CachingSetState(db, addr, key, value, fetch) ==
    LET stateDiff == getStateDiff(db.diffs, addr)
        storageDiff == getStorageDiff(stateDiff, key)
        got == GetState(db, addr, key, fetch)
        valueBefore == got.value
        captured == IF storageDiff.ValueBefore = ZeroHash
                    THEN [storageDiff EXCEPT !.ValueBefore = valueBefore]
                    ELSE storageDiff
        stamped == [captured EXCEPT !.ValueAfter = value,
                                    !.Preimage = PreimageOf(db.preimages, key)]
        newDiff == [stateDiff EXCEPT !.StorageDiffs = Put(@, key, stamped)]
    IN  [db |-> [got.db EXCEPT !.diffs = Put(@, addr, newDiff),
                               !.cache = Put(@, getStorageCacheKey(addr, key), value)],
         value |-> value]

\* The engine's entry point: evm.go SetState is setState(.., false).
SetState(db, addr, key, value, fetch) ==
    IF build = "caching.go" THEN CachingSetState(db, addr, key, value, fetch)
    ELSE setState(db, addr, key, value, FALSE, fetch)

SetNonce(db, addr, nonce, fetch) ==
    LET stateDiff == getStateDiff(db.diffs, addr)
        got == GetNonce(db, addr, fetch)
        seen == IF ~stateDiff.NonceSeen
                THEN [stateDiff EXCEPT !.NonceBefore = got.value, !.NonceSeen = TRUE]
                ELSE stateDiff
        newDiff == [seen EXCEPT !.NonceAfter = nonce]
    IN  [got.db EXCEPT !.diffs = Put(@, addr, newDiff),
                       !.cache = Put(@, getNonceCacheKey(addr), nonce)]

\* AddPreimage: last write wins.
AddPreimage(db, hash, preimage) == [db EXCEPT !.preimages = Put(@, hash, preimage)]

\* --------------------------------------------------------------- strings
\* A string is the sequence of its character codes.  Hex strings are one
\* digit long here; the "0x" prefix, the same on every one, is left out.
HexDigit(n) == IF n < 10 THEN 48 + n ELSE 87 + n
ToUpperChar(c) == IF c >= 97 /\ c <= 122 THEN c - 32 ELSE c
ToLowerChar(c) == IF c >= 65 /\ c <= 90 THEN c + 32 ELSE c
\* strings.ToLower
ToLower(str) == [i \in 1..Len(str) |-> ToLowerChar(str[i])]
ToUpper(str) == [i \in 1..Len(str) |-> ToUpperChar(str[i])]

\* Go's < on strings: bytewise lexicographic.
RECURSIVE StrLess(_, _)
StrLess(s, t) ==
    IF t = <<>> THEN FALSE
    ELSE IF s = <<>> THEN TRUE
    ELSE IF Head(s) # Head(t) THEN Head(s) < Head(t)
    ELSE StrLess(Tail(s), Tail(t))

\* common.Hash.Hex / String: lower-case hex.
HashHex(h) == <<HexDigit(h)>>

\* The hex letters EIP-55 writes in upper case depend on the Keccak hash of
\* the address; here address 12 has its letter in upper case, 11 in lower.
ChecksumUpper(addr) == addr = 12

\* common.Address.Hex / String: the EIP-55 checksummed hex.
AddrHex(addr) ==
    IF ChecksumUpper(addr) THEN ToUpper(<<HexDigit(addr)>>) ELSE <<HexDigit(addr)>>

\* A slice left in the order it was filled in: what every rendered order would
\* be without the sorts.
Unsorted(items) == [i \in 1..Len(items) |-> items[i][2]]

\* sort.Slice on a slice of at most 12 elements is an insertion sort: an
\* element moves left while it is less than its left neighbour.  An item is
\* a pair <<sort key, element>>.
RECURSIVE InsertLeft(_, _)
InsertLeft(sorted, item) ==
    IF sorted = <<>> THEN <<item>>
    ELSE LET n == Len(sorted) IN
         IF StrLess(item[1], sorted[n][1])
         THEN InsertLeft(SubSeq(sorted, 1, n - 1), item) \o <<sorted[n]>>
         ELSE sorted \o <<item>>

RECURSIVE SortItems(_)
SortItems(items) ==
    IF items = <<>> THEN <<>>
    ELSE LET n == Len(items) IN InsertLeft(SortItems(SubSeq(items, 1, n - 1)), items[n])

SortSlice(items) == LET sorted == SortItems(items) IN [i \in 1..Len(sorted) |-> sorted[i][2]]

\* ---------------------------------------------------------- configuration
DEFAULT_CONTRACT == [Name |-> "<<ContractName>>", Slots |-> EmptyMap]
DEFAULT_SLOT ==
    [Type |-> "<<DecodedKind>>", Summary |-> "<<Summary>>",
     OverrideMeaning |-> "<<OverrideMeaning>>"]

\* getSlot never returns (its loop does not end): what a caller then has.
NoReturn == [Type |-> "(no return)", Summary |-> "(no return)",
             OverrideMeaning |-> "(no return)"]

\* A slots field of the document: absent, a string, or an inline table.  A
\* string is the reference ${{storage-layouts.NAME}} or some other text.
SlotsNil == [kind |-> "nil", name |-> "", table |-> EmptyMap]
SlotsRef(name) == [kind |-> "ref", name |-> name, table |-> EmptyMap]
SlotsText == [kind |-> "text", name |-> "", table |-> EmptyMap]
SlotsInline(table) == [kind |-> "map", name |-> "", table |-> table]

\* A resolver that accepts a reference without copying the template in.
ResolveContractEmpty(raw, layouts) ==
    IF raw.Slots.kind \in {"ref", "nil"}
    THEN [err |-> raw.Slots.kind = "ref" /\ raw.Slots.name \notin DOMAIN layouts,
          contract |-> [Name |-> raw.Name, Slots |-> EmptyMap]]
    ELSE [err |-> TRUE, contract |-> DEFAULT_CONTRACT]

\* The result of resolving one contract: the finalized contract or an error.
ResolveContract(raw, layouts) ==
    IF raw.Slots.kind = "ref"
    THEN IF raw.Slots.name \in DOMAIN layouts
         THEN [err |-> FALSE, contract |-> [Name |-> raw.Name, Slots |-> layouts[raw.Slots.name]]]
         ELSE [err |-> TRUE, contract |-> DEFAULT_CONTRACT]
    ELSE IF raw.Slots.kind = "text"
    THEN [err |-> TRUE, contract |-> DEFAULT_CONTRACT]
    ELSE IF raw.Slots.kind = "nil"
    THEN [err |-> FALSE, contract |-> [Name |-> raw.Name, Slots |-> EmptyMap]]
    ELSE [err |-> TRUE, contract |-> DEFAULT_CONTRACT]

\* Config.UnmarshalYAML: every contract of every chain is resolved, under
\* the address key the document gives it; the first error ends the load.
UnmarshalYAML(yaml) ==
    LET res == [c \in DOMAIN yaml.Contracts |->
                  [a \in DOMAIN yaml.Contracts[c] |->
                      ResolveContract(yaml.Contracts[c][a], yaml.StorageLayouts)]]
        failed == \E c \in DOMAIN res : \E a \in DOMAIN res[c] : res[c][a].err
    IN  [err |-> failed,
         cfg |-> [StorageLayouts |-> yaml.StorageLayouts,
                  Contracts |-> [c \in DOMAIN res |->
                                   [a \in DOMAIN res[c] |-> res[c][a].contract]]]]

\* A load that hands back whatever was resolved, error or not.
loadConfigPartial(yaml) == [err |-> FALSE, cfg |-> UnmarshalYAML(yaml).cfg]

\* loadConfig: the configuration, or an error and no configuration.
NoConfig == [StorageLayouts |-> EmptyMap, Contracts |-> EmptyMap]
loadConfig(yaml) ==
    LET r == UnmarshalYAML(yaml) IN
    IF r.err THEN [err |-> TRUE, cfg |-> NoConfig] ELSE [err |-> FALSE, cfg |-> r.cfg]

\* getContractCfg: the address is lower-cased, the table's keys are not.
\* A lookup that hands back the map's zero value when the entry is missing.
getContractCfgZero(config, chain, address) ==
    IF chain \in DOMAIN config.Contracts
       /\ ToLower(address) \in DOMAIN config.Contracts[chain]
    THEN config.Contracts[chain][ToLower(address)]
    ELSE [Name |-> "", Slots |-> EmptyMap]

getContractCfg(config, chain, address) ==
    IF chain \in DOMAIN config.Contracts
       /\ ToLower(address) \in DOMAIN config.Contracts[chain]
    THEN config.Contracts[chain][ToLower(address)]
    ELSE DEFAULT_CONTRACT

\* common.HexToHash of a hex string, given as its 32-byte words: the last 32
\* bytes (BytesToHash crops from the left).
HexToHash(words) == words[Len(words)]

\* CachingStateDB.GetPreimage: the registry's entry for the hash, the empty
\* string when there is none.
GetPreimage(pre, hash) == PreimageOf(pre, hash)

\* A round that gives up when the second word has no entry: the lookup a
\* single derivation step would make.
getSlotRoundOnce(slots, pre, slot) ==
    LET next == GetPreimage(pre, HexToHash(slot)) IN
    IF Len(next) = 2 /\ ToLower(HashHex(next[2])) \in DOMAIN slots
    THEN [done |-> TRUE, result |-> slots[ToLower(HashHex(next[2]))], slot |-> next]
    ELSE [done |-> TRUE, result |-> DEFAULT_SLOT, slot |-> next]

\* One round of getSlot's loop.  slot holds the words of the string the
\* round starts from: the slot key, or the preimage of the round before.
getSlotRound(slots, pre, slot) ==
    LET next == GetPreimage(pre, HexToHash(slot)) IN
    IF Len(next) # 2 THEN [done |-> TRUE, result |-> DEFAULT_SLOT, slot |-> next]
    ELSE IF ToLower(HashHex(next[2])) \in DOMAIN slots
    THEN [done |-> TRUE, result |-> slots[ToLower(HashHex(next[2]))], slot |-> next]
    ELSE [done |-> FALSE, result |-> DEFAULT_SLOT, slot |-> next]

\* The loop: rounds until one returns.  A round that starts from a hash an
\* earlier round started from repeats it for ever.
RECURSIVE getSlotLoop(_, _, _, _)
getSlotLoop(slots, pre, slot, seen) ==
    LET r == getSlotRound(slots, pre, slot) IN
    IF HexToHash(slot) \in seen THEN NoReturn
    ELSE IF r.done THEN r.result
    ELSE getSlotLoop(slots, pre, r.slot, seen \cup {HexToHash(slot)})

\* getSlot: the exact entry for the lower-cased key if the table has one,
\* else the loop.
getSlot(contract, pre, key) ==
    IF ToLower(HashHex(key)) \in DOMAIN contract.Slots
    THEN contract.Slots[ToLower(HashHex(key))]
    ELSE getSlotLoop(contract.Slots, pre, <<key>>, {})

\* --------------------------------------------------------------- renderer
\* The generator's fields the renderers read: the loaded configuration, the
\* chain ID, and the store's preimage registry (through g.db).
Generator(config, chain, pre) == [cfg |-> config, chainId |-> chain, preimages |-> pre]

\* All the orders a range over a map with key set S may take.
Perms(S) == {p \in [1..Cardinality(S) -> S] : \A x \in S : \E i \in DOMAIN p : p[i] = x}
KeyOrders == UNION {Perms(S) : S \in SUBSET Keys}

\* The iteration orders one rendering meets: of the diff map (the order of
\* GetStateDiffs' result) and of each address's StorageDiffs map.
IterOrders(ds) ==
    [addrs : Perms(DOMAIN ds),
     keys : {f \in [DOMAIN ds -> KeyOrders] :
                \A a \in DOMAIN ds : f[a] \in Perms(DOMAIN ds[a].StorageDiffs)}]

\* GetStateDiffs: the diffs of the map, in the order the range yields them.
GetStateDiffs(ds, order) == [i \in 1..Len(order) |-> ds[order[i]]]

\* sort.Slice(diffs, by Address.String()).
SortDiffs(diffList) ==
    SortSlice([i \in 1..Len(diffList) |-> <<AddrHex(diffList[i].Address), diffList[i]>>])

\* The StorageDiffs of one address ranged over in the given order, then
\* sort.Slice(storageDiffs, by Key.String()).
SortedStorageDiffs(diff, keyOrder) ==
    SortSlice([j \in 1..Len(keyOrder) |->
                 <<HashHex(keyOrder[j]), diff.StorageDiffs[keyOrder[j]]>>])

\* sort.Slice(overrides, by ContractAddress.String()) and, for each override
\* ranged over, sort.Slice(override.Storage, by Key.String()): both in
\* place, on the slices the caller passed.
SortOverrides(overrides) ==
    LET byAddr == SortSlice([i \in 1..Len(overrides) |->
                               <<AddrHex(overrides[i].ContractAddress), overrides[i]>>])
    IN  [i \in 1..Len(byAddr) |->
            [byAddr[i] EXCEPT !.Storage =
                SortSlice([j \in 1..Len(@) |-> <<HashHex(@[j].Key), @[j]>>])]]

\* The value of a hex digit character.
HexVal(c) == IF c >= 97 THEN c - 87 ELSE IF c >= 65 THEN c - 55 ELSE c - 48

\* common.FromHex: the bytes a hex string spells, digit by digit.
FromHex(str) == [i \in 1..Len(str) |-> HexVal(str[i])]

\* big.Int.SetBytes: the digits read as a big-endian unsigned integer.
RECURSIVE SetBytes(_)
SetBytes(buf) ==
    IF buf = <<>> THEN 0
    ELSE 16 * SetBytes(SubSeq(buf, 1, Len(buf) - 1)) + buf[Len(buf)]

\* big.Int.String: the decimal digits, without leading zeros.
RECURSIVE BigString(_)
BigString(n) ==
    IF n < 10 THEN <<48 + n>> ELSE BigString(n \div 10) \o <<48 + (n % 10)>>

\* The hex digits of an address (common.AddressLength, in digits).
AddrDigits == 1

\* An address taken from the high end of the value.
HexToAddressHigh(str) == SetBytes(SubSeq(FromHex(str), 1, AddrDigits))

\* common.HexToAddress: BytesToAddress crops from the left, so the address
\* is the low end of the value.
HexToAddress(str) ==
    LET b == FromHex(str) IN
    SetBytes(IF Len(b) > AddrDigits THEN SubSeq(b, Len(b) - AddrDigits + 1, Len(b)) ELSE b)

\* The literal "<<DecodedValue>>", as character codes.
DecodedPlaceholder ==
    <<60, 60, 68, 101, 99, 111, 100, 101, 100, 86, 97, 108, 117, 101, 62, 62>>

\* getDecodedValue: uint256 gives the decimal string, address the
\* checksummed hex of the low bytes, anything else the placeholder.
getDecodedValue(slotType, value) ==
    IF slotType = "uint256" THEN BigString(SetBytes(FromHex(value)))
    ELSE IF slotType = "address" THEN AddrHex(HexToAddress(value))
    ELSE DecodedPlaceholder

\* Change entries for every storage diff, changed or not: what the report
\* would list without the skip.
JSONChangesAll(g, contract, storageDiffs) ==
    [j \in 1..Len(storageDiffs) |->
        [Key |-> HashHex(storageDiffs[j].Key),
         Before |-> HashHex(storageDiffs[j].ValueBefore),
         After |-> HashHex(storageDiffs[j].ValueAfter),
         Description |-> "<<Summary>>"]]

\* ---- JSON (template.go)
\* The Change entries of one address: the sorted storage diffs whose value
\* changed, each with its slot's summary.
RECURSIVE JSONChanges(_, _, _)
JSONChanges(g, contract, storageDiffs) ==
    IF storageDiffs = <<>> THEN <<>>
    ELSE LET sd == Head(storageDiffs) IN
         IF sd.ValueBefore = sd.ValueAfter
         THEN JSONChanges(g, contract, Tail(storageDiffs))
         ELSE <<[Key |-> HashHex(sd.Key), Before |-> HashHex(sd.ValueBefore),
                 After |-> HashHex(sd.ValueAfter),
                 Description |-> getSlot(contract, g.preimages, sd.Key).Summary]>>
              \o JSONChanges(g, contract, Tail(storageDiffs))

\* The StateChange entries: one per address with at least one Change.
RECURSIVE JSONStateChanges(_, _, _)
JSONStateChanges(g, sortedDiffs, keyOrders) ==
    IF sortedDiffs = <<>> THEN <<>>
    ELSE LET diff == Head(sortedDiffs)
             contract == getContractCfg(g.cfg, g.chainId, AddrHex(diff.Address))
             changes == JSONChanges(g, contract,
                                    SortedStorageDiffs(diff, keyOrders[diff.Address]))
         IN  (IF Len(changes) > 0
              THEN <<[Name |-> contract.Name, Address |-> AddrHex(diff.Address),
                      Changes |-> changes]>>
              ELSE <<>>)
             \o JSONStateChanges(g, Tail(sortedDiffs), keyOrders)

\* convertDiffsToJSON.
convertDiffsToJSON(g, diffList, keyOrders) ==
    JSONStateChanges(g, SortDiffs(diffList), keyOrders)

\* convertOverridesToJSON, on the overrides as the sorts leave them.
convertOverridesToJSON(g, overrides) ==
    LET sorted == SortOverrides(overrides) IN
    [i \in 1..Len(sorted) |->
        LET contract == getContractCfg(g.cfg, g.chainId, AddrHex(sorted[i].ContractAddress))
        IN  [Name |-> contract.Name,
             Address |-> AddrHex(sorted[i].ContractAddress),
             Overrides |-> [j \in 1..Len(sorted[i].Storage) |->
                 [Key |-> HashHex(sorted[i].Storage[j].Key),
                  Value |-> HashHex(sorted[i].Storage[j].Value),
                  Description |->
                      getSlot(contract, g.preimages, sorted[i].Storage[j].Key).OverrideMeaning]]]]

\* Whether some getSlot call a rendering makes does not return.
DescriptionsReturn(sections) ==
    \A i \in DOMAIN sections :
        /\ "Changes" \in DOMAIN sections[i] =>
              \A j \in DOMAIN sections[i].Changes :
                  sections[i].Changes[j].Description # NoReturn.Summary
        /\ "Overrides" \in DOMAIN sections[i] =>
              \A j \in DOMAIN sections[i].Overrides :
                  sections[i].Overrides[j].Description # NoReturn.OverrideMeaning

\* BuildValidationJSONForTool (safe and the two hashes are copied through).
BuildValidationJSONForTool(g, overrides, diffList, keyOrders) ==
    LET ov == convertOverridesToJSON(g, overrides)
        ch == convertDiffsToJSON(g, diffList, keyOrders)
    IN  [returns |-> DescriptionsReturn(ov) /\ DescriptionsReturn(ch),
         StateOverrides |-> ov, StateChanges |-> ch]

\* ---- Markdown (the generator with a template)
\* A line group of a rendered section: a contract heading, an override
\* entry or a numbered change entry.
Heading(name, addr) ==
    [kind |-> "heading", Name |-> name, Address |-> addr, Ctr |-> 0, Key |-> <<>>,
     Before |-> <<>>, After |-> <<>>, Type |-> "", Old |-> DecodedPlaceholder,
     New |-> DecodedPlaceholder, Meaning |-> ""]
OverrideEntry(addr, key, value, meaning) ==
    [kind |-> "override", Name |-> "", Address |-> addr, Ctr |-> 0, Key |-> key,
     Before |-> <<>>, After |-> value, Type |-> "", Old |-> DecodedPlaceholder,
     New |-> DecodedPlaceholder, Meaning |-> meaning]
ChangeEntry(addr, ctr, sd, slot) ==
    [kind |-> "change", Name |-> "", Address |-> addr, Ctr |-> ctr, Key |-> HashHex(sd.Key),
     Before |-> HashHex(sd.ValueBefore), After |-> HashHex(sd.ValueAfter),
     Type |-> slot.Type, Old |-> getDecodedValue(slot.Type, HashHex(sd.ValueBefore)),
     New |-> getDecodedValue(slot.Type, HashHex(sd.ValueAfter)), Meaning |-> slot.Summary]

\* A piece of the template: literal text, a placeholder, or the text a
\* placeholder was replaced by.
Piece(kind, name, body) == [kind |-> kind, name |-> name, body |-> body]
Text(kind) == Piece(kind, "", <<>>)

\* starterTemplate, cut at its placeholders; it ends in two newlines.
starterTemplate ==
    << Text("intro"), Text("<<MessageIdentifiers>>"), Text("state validations"),
       Text("<<StartStateOverrides>>"), Text("## State Overrides"),
       Text("<<StateOverrides>>"), Text("blank"), Text("<<EndStateOverrides>>"),
       Text("<<StartStateChanges>>"), Text("## Task State Changes"),
       Text("<<StateChanges>>"), Text("signer nonce note"),
       Text("<<EndStateChanges>>"), Text("back to the README"),
       Text("newline"), Text("newline") >>

\* strings.Index: the place of the first occurrence, -1 when there is none.
IndexOf(tpl, kind) ==
    IF \E i \in DOMAIN tpl : tpl[i].kind = kind
    THEN CHOOSE i \in DOMAIN tpl :
            tpl[i].kind = kind /\ \A j \in DOMAIN tpl : tpl[j].kind = kind => i <= j
    ELSE -1

\* strings.Replace(.., 1): the first occurrence, if any, is replaced.
ReplaceFirst(tpl, kind, pieces) ==
    LET i == IndexOf(tpl, kind) IN
    IF i = -1 THEN tpl
    ELSE SubSeq(tpl, 1, i - 1) \o pieces \o SubSeq(tpl, i + 1, Len(tpl))

\* strings.TrimSuffix(.., "\n").
TrimNewline(tpl) ==
    IF tpl # <<>> /\ tpl[Len(tpl)].kind = "newline" THEN SubSeq(tpl, 1, Len(tpl) - 1)
    ELSE tpl

handleMessageIdentifiers(g, tpl, safeAddr) ==
    ReplaceFirst(tpl, "<<MessageIdentifiers>>",
                 <<Piece("message identifiers", getContractCfg(g.cfg, g.chainId, safeAddr).Name, <<>>)>>)

\* The text handleStateOverrides builds: per override a heading, then one
\* entry per storage override.
RECURSIVE MDOverrides(_, _)
MDOverrides(g, sorted) ==
    IF sorted = <<>> THEN <<>>
    ELSE LET o == Head(sorted)
             contract == getContractCfg(g.cfg, g.chainId, AddrHex(o.ContractAddress))
         IN  <<Heading(contract.Name, AddrHex(o.ContractAddress))>>
             \o [j \in 1..Len(o.Storage) |->
                   OverrideEntry(AddrHex(o.ContractAddress), HashHex(o.Storage[j].Key),
                                 HashHex(o.Storage[j].Value),
                                 getSlot(contract, g.preimages, o.Storage[j].Key).OverrideMeaning)]
             \o MDOverrides(g, Tail(sorted))

CountKind(body, kind) == Cardinality({i \in DOMAIN body : body[i].kind = kind})

\* handleStateOverrides: the template after it, or a panic (slicing the
\* template with index -1 when the section is to be cut out and its markers
\* are not there).
handleStateOverrides(g, tpl, overrides) ==
    LET body == MDOverrides(g, SortOverrides(overrides))
        counter == CountKind(body, "override")
        filled == ReplaceFirst(tpl, "<<StateOverrides>>", <<Piece("state overrides", "", body)>>)
        startIdx == IndexOf(filled, "<<StartStateOverrides>>")
        endIdx == IndexOf(filled, "<<EndStateOverrides>>")
    IN  IF counter > 0
        THEN [panic |-> FALSE,
              tpl |-> ReplaceFirst(ReplaceFirst(filled, "<<StartStateOverrides>>", <<>>),
                                   "<<EndStateOverrides>>", <<>>)]
        ELSE IF startIdx = -1
        THEN [panic |-> TRUE, tpl |-> filled]
        ELSE [panic |-> FALSE,
              tpl |-> SubSeq(filled, 1, startIdx - 1) \o SubSeq(filled, endIdx + 1, Len(filled))]

\* The numbered entries of one address: the sorted storage diffs whose value
\* changed, numbered on from ctr.
RECURSIVE MDChangeEntries(_, _, _, _)
MDChangeEntries(g, diff, storageDiffs, ctr) ==
    IF storageDiffs = <<>> THEN <<>>
    ELSE LET sd == Head(storageDiffs)
             contract == getContractCfg(g.cfg, g.chainId, AddrHex(diff.Address))
             slot == getSlot(contract, g.preimages, sd.Key)
         IN  IF sd.ValueBefore = sd.ValueAfter
             THEN MDChangeEntries(g, diff, Tail(storageDiffs), ctr)
             ELSE <<ChangeEntry(AddrHex(diff.Address), ctr, sd, slot)>>
                  \o MDChangeEntries(g, diff, Tail(storageDiffs), ctr + 1)

\* The text handleStateChanges builds: per address that has storage diffs a
\* heading, then its numbered entries.
RECURSIVE MDStateChanges(_, _, _, _)
MDStateChanges(g, sortedDiffs, keyOrders, ctr) ==
    IF sortedDiffs = <<>> THEN <<>>
    ELSE LET diff == Head(sortedDiffs)
             contract == getContractCfg(g.cfg, g.chainId, AddrHex(diff.Address))
             storageDiffs == SortedStorageDiffs(diff, keyOrders[diff.Address])
             entries == MDChangeEntries(g, diff, storageDiffs, ctr)
         IN  (IF Len(storageDiffs) > 0
              THEN <<Heading(contract.Name, AddrHex(diff.Address))>>
              ELSE <<>>)
             \o entries
             \o MDStateChanges(g, Tail(sortedDiffs), keyOrders, ctr + Len(entries))

handleStateChanges(g, tpl, diffList, keyOrders) ==
    LET body == MDStateChanges(g, SortDiffs(diffList), keyOrders, 0)
        filled == ReplaceFirst(tpl, "<<StateChanges>>", <<Piece("state changes", "", body)>>)
    IN  TrimNewline(ReplaceFirst(ReplaceFirst(filled, "<<StartStateChanges>>", <<>>),
                                 "<<EndStateChanges>>", <<>>))

\* Whether every getSlot call the Markdown rendering makes returns: one per
\* storage override and one per storage diff, changed or not.
MDReturns(g, overrides, ds) ==
    /\ \A i \in DOMAIN overrides : \A j \in DOMAIN overrides[i].Storage :
          getSlot(getContractCfg(g.cfg, g.chainId, AddrHex(overrides[i].ContractAddress)),
                  g.preimages, overrides[i].Storage[j].Key) # NoReturn
    /\ \A a \in DOMAIN ds : \A k \in DOMAIN ds[a].StorageDiffs :
          getSlot(getContractCfg(g.cfg, g.chainId, AddrHex(a)), g.preimages, k) # NoReturn

\* BuildValidationFile: the three handlers in turn on g.template; the result
\* is g.template as they leave it.
BuildValidationFile(g, tpl, safeAddr, overrides, ds, order) ==
    LET ids == handleMessageIdentifiers(g, tpl, safeAddr)
        ov == handleStateOverrides(g, ids, overrides)
    IN  IF ~MDReturns(g, overrides, ds) THEN [outcome |-> "no return", tpl |-> tpl]
        ELSE IF ov.panic THEN [outcome |-> "panic", tpl |-> ov.tpl]
        ELSE [outcome |-> "ok",
              tpl |-> handleStateChanges(g, ov.tpl, GetStateDiffs(ds, order.addrs), order.keys)]

\* ------------------------------------------------------------- overrides
StorageOverrides == [Key : Keys, Value : Vals]
StorageLists ==
    {<<e>> : e \in StorageOverrides}
        \cup {<<e1, e2>> : e1 \in StorageOverrides, e2 \in StorageOverrides}
OverrideRecords == [ContractAddress : Addrs, Storage : StorageLists]
\* The override lists a payload may encode: none, one contract with one or
\* two slots, or two contracts (possibly the same one) with one slot each.
OverrideLists ==
    {<<>>} \cup {<<o>> : o \in OverrideRecords}
        \cup {<<o1, o2>> : o1 \in {o \in OverrideRecords : Len(o.Storage) = 1},
                           o2 \in {o \in OverrideRecords : Len(o.Storage) = 1}}
\* A payload that is not a list: without any "contractAddress:" marker, or
\* cut off after one.
MalformedPayloads == {"nomarker", "truncated"}

\* caching.go SetOverrides scans the payload by hand.  Neither loop moves on
\* in the text it scans: each round finds the first contract again, and each
\* inner round its first key and value.
CachingDecode(list) ==
    [i \in 1..Len(list) |->
        [ContractAddress |-> list[1].ContractAddress,
         Storage |-> [j \in 1..Len(list[1].Storage) |-> list[1].Storage[1]]]]

\* The (address, key, value) triples of a list, in application order.
RECURSIVE Flatten(_)
Flatten(list) ==
    IF list = <<>> THEN <<>>
    ELSE [j \in 1..Len(Head(list).Storage) |->
            [addr |-> Head(list).ContractAddress,
             key |-> Head(list).Storage[j].Key,
             value |-> Head(list).Storage[j].Value]]
         \o Flatten(Tail(list))

\* The loop of applyOverrides: one seeding write per storage override.  rpc
\* gives the outcome a remote fetch of each slot has during the call.
RECURSIVE EvmSeed(_, _, _)
EvmSeed(db, entries, rpc) ==
    IF entries = <<>> THEN db
    ELSE LET e == Head(entries) IN
         EvmSeed(setState(db, e.addr, e.key, e.value, TRUE, rpc[e.addr, e.key]).db,
                 Tail(entries), rpc)

RECURSIVE CachingSeed(_, _, _)
CachingSeed(db, entries, rpc) ==
    IF entries = <<>> THEN db
    ELSE LET e == Head(entries) IN
         CachingSeed(CachingSetState(db, e.addr, e.key, e.value, rpc[e.addr, e.key]).db,
                     Tail(entries), rpc)

\* evm.go applyOverrides: record the list, then setState(.., true) per entry.
EvmApplyOverrides(db, overrides, rpc) ==
    EvmSeed([db EXCEPT !.Overrides = overrides], Flatten(overrides), rpc)

\* caching.go applyOverrides: record the list, then SetState per entry.
CachingApplyOverrides(db, overrides, rpc) ==
    CachingSeed([db EXCEPT !.Overrides = overrides], Flatten(overrides), rpc)

applyOverrides(db, overrides, rpc) ==
    IF build = "caching.go" THEN CachingApplyOverrides(db, overrides, rpc)
    ELSE EvmApplyOverrides(db, overrides, rpc)

\* ------------------------------------------------------------- the store
DB == [cache |-> cache, diffs |-> diffs, preimages |-> preimages, Overrides |-> Overrides,
       fetched |-> fetched]

Install(db) ==
    /\ cache' = db.cache
    /\ diffs' = db.diffs
    /\ preimages' = db.preimages
    /\ Overrides' = db.Overrides
    /\ fetched' = db.fetched

\* NewCachingStateDB: empty cache, diff map and registry, no override list.
InitStore ==
    /\ build \in Builds
    /\ phase = "new"
    /\ cache = EmptyMap /\ fetched = {}
    /\ diffs = EmptyMap
    /\ preimages = EmptyMap
    /\ Overrides = <<>>
    /\ written = {}
    /\ steps = 0

\* The history of last writes after the seeding writes of applyOverrides.
RECURSIVE Overridden(_, _)
Overridden(last, entries) ==
    IF entries = <<>> THEN last
    ELSE Overridden(Put(last, <<Head(entries).addr, Head(entries).key>>, Head(entries).value),
                    Tail(entries))

\* SetOverrides on a payload that encodes a list.  evm.go decodes JSON;
\* caching.go scans by hand.
SetOverridesList ==
    /\ phase = "new"
    /\ \E list \in OverrideLists, rpc \in [Addrs \X Keys -> FetchOutcomes] :
         LET decoded == IF build = "caching.go" THEN CachingDecode(list) ELSE list
         IN  /\ Install(applyOverrides(DB, decoded, rpc))
             /\ lastWrite' = Overridden(lastWrite, Flatten(decoded))
    /\ phase' = "sim"
    /\ UNCHANGED <<build, written, steps, firstBefore, balanceLog, cfgVars, renderVars, slotVars, decodeVars, callVars, sigVars, mainVars, simVars>>

\* SetOverrides on a payload that is no list.  evm.go: json.Unmarshal fails,
\* the error is printed and nothing is applied.  caching.go: no marker means
\* zero rounds and an empty list applied; a marker with no comma after it
\* slices with index -1 and panics.
SetOverridesMalformed ==
    /\ phase = "new"
    /\ \E payload \in MalformedPayloads :
         IF build = "caching.go" /\ payload = "truncated"
         THEN /\ phase' = "panicked"
              /\ UNCHANGED <<cache, diffs, preimages, Overrides, fetched>>
         ELSE /\ phase' = "sim"
              /\ IF build = "caching.go"
                 THEN Install(applyOverrides(DB, <<>>, [s \in Addrs \X Keys |-> FetchErr]))
                 ELSE UNCHANGED <<cache, diffs, preimages, Overrides, fetched>>
    /\ UNCHANGED <<build, written, steps, cfgVars, renderVars, slotVars, decodeVars, callVars, sigVars, mainVars, simVars, histVars>>

CanStep == phase = "sim" /\ steps < MaxSteps

DoGetState ==
    /\ CanStep
    /\ \E addr \in Addrs, key \in Keys, fetch \in FetchOutcomes :
         Install(GetState(DB, addr, key, fetch).db)
    /\ steps' = steps + 1
    /\ UNCHANGED <<build, phase, written, cfgVars, renderVars, slotVars, decodeVars, callVars, sigVars, mainVars, simVars, histVars>>

DoSetState ==
    /\ CanStep
    /\ \E addr \in Addrs, key \in Keys, value \in Vals, fetch \in FetchOutcomes :
         /\ Install(SetState(DB, addr, key, value, fetch).db)
         /\ written' = written \cup {<<addr, key, value>>}
         /\ lastWrite' = Put(lastWrite, <<addr, key>>, value)
         /\ firstBefore' = IF <<addr, key>> \in DOMAIN firstBefore THEN firstBefore
                           ELSE Put(firstBefore, <<addr, key>>,
                                    GetState(DB, addr, key, fetch).value)
    /\ steps' = steps + 1
    /\ UNCHANGED <<build, phase, balanceLog, cfgVars, renderVars, slotVars, decodeVars, callVars, sigVars, mainVars, simVars>>

DoSetNonce ==
    /\ CanStep
    /\ \E addr \in Addrs, nonce \in Nonces, fetch \in NonceOutcomes :
         Install(SetNonce(DB, addr, nonce, fetch))
    /\ steps' = steps + 1
    /\ UNCHANGED <<build, phase, written, cfgVars, renderVars, slotVars, decodeVars, callVars, sigVars, mainVars, simVars, histVars>>

\* The preimages the engine reveals: 32 bytes, or 64 bytes key ++ base.
Preimages == {<<0>>} \cup {<<0, w>> : w \in Hash}

DoAddPreimage ==
    /\ CanStep
    /\ \E hash \in Hash, preimage \in Preimages :
         Install(AddPreimage(DB, hash, preimage))
    /\ steps' = steps + 1
    /\ UNCHANGED <<build, phase, written, cfgVars, renderVars, slotVars, decodeVars, callVars, sigVars, mainVars, simVars, histVars>>

\* --------------------------------------------------- the embedded document
\* Slot-table keys and configured addresses are strings of the YAML text.
Slot(type, summary, meaning) ==
    [Type |-> type, Summary |-> summary, OverrideMeaning |-> meaning]

\* storage-layouts of contracts.yaml, cut down to two templates.
GnosisSafeLayout ==
    (<<49>> :> Slot("uint256", "Updates the owner count",
                    "Sets the owner count to 1 so the transaction simulation can occur."))
    @@ (<<51>> :> Slot("address", "Updates the owners mapping", ""))
SystemConfigLayout ==
    (<<97>> :> Slot("hybrid", "Updates EIP 1559 params for the chain", ""))
AllLayouts == ("gnosis-safe" :> GnosisSafeLayout) @@ ("system-config" :> SystemConfigLayout)
LayoutSets == {AllLayouts, ("gnosis-safe" :> GnosisSafeLayout), EmptyMap}

\* What a contract's slots field may hold.
RawSlots ==
    {SlotsNil, SlotsRef("gnosis-safe"), SlotsRef("system-config"), SlotsRef("missing"),
     SlotsText, SlotsInline(SystemConfigLayout)}

\* A document: chain 1 with two contracts, at the addresses b and c.
Document(layouts, slotsB, slotsC) ==
    [StorageLayouts |-> layouts,
     Contracts |-> ("1" :> ((<<98>> :> [Name |-> "CB Coordinator Safe - Mainnet",
                                        Slots |-> slotsB])
                            @@ (<<99>> :> [Name |-> "System Config - Mainnet",
                                           Slots |-> slotsC])))]
\* The same with the second address written with an upper-case hex letter.
DocumentUpper(layouts, slotsB, slotsC) ==
    [StorageLayouts |-> layouts,
     Contracts |-> ("1" :> ((<<98>> :> [Name |-> "CB Coordinator Safe - Mainnet",
                                        Slots |-> slotsB])
                            @@ (<<67>> :> [Name |-> "System Config - Mainnet",
                                           Slots |-> slotsC])))]
Docs ==
    {Document(l, b, c) : l \in LayoutSets, b \in RawSlots, c \in RawSlots}
        \cup {DocumentUpper(l, b, c) : l \in LayoutSets, b \in RawSlots, c \in RawSlots}

\* The document as the repository ships it: every slots field a reference.
EmbeddedDoc == Document(AllLayouts, SlotsRef("gnosis-safe"), SlotsRef("system-config"))
ChainIds == {"1", "10"}

\* The variables of a part of the program a specification leaves out.
IdleStore ==
    /\ build = "evm.go"
    /\ phase = "idle"
    /\ cache = EmptyMap /\ fetched = {}
    /\ diffs = EmptyMap
    /\ preimages = EmptyMap
    /\ Overrides = <<>>
    /\ written = {}
    /\ steps = 0
IdleCfg ==
    /\ doc = EmbeddedDoc
    /\ cfgPhase = "embedded"
    /\ cfg = NoConfig
    /\ chainId = "1"
    /\ lookupAddr = <<>>
    /\ lookupResult = DEFAULT_CONTRACT
IdleRender ==
    /\ safe = 11
    /\ template = starterTemplate
    /\ outs = <<>>
\* A call of a store method as the engine sees it: the method, whether the
\* cache key it is about, whether the cache had the entry, whether the remote
\* fetch failed (or would have), and the result.
Call(op, addr, ck, hit, failed, before, ret, code) ==
    [op |-> op, addr |-> addr, ck |-> ck, hit |-> hit, failed |-> failed, before |-> before,
     ret |-> ret, code |-> code]
NoCall == Call("", 0, <<>>, FALSE, FALSE, 0, 0, <<>>)

\* parseSigningData and parseInput return nil hashes with an error.
NoHashes == [err |-> TRUE, domainHash |-> <<>>, messageHash |-> <<>>]
\* The process has not ended.
Running == -1
NoFlags == [rpcURL |-> FALSE, useExtractedData |-> FALSE, signingData |-> <<>>,
            senderAddress |-> FALSE, outputFormat |-> "tool", outputFile |-> FALSE]

IdleSig ==
    /\ sigParser = ""
    /\ sigInput = <<>>
    /\ sigPc = "idle"
    /\ sigResult = NoHashes
IdleMain ==
    /\ mainPc = "idle"
    /\ flags = NoFlags
    /\ failure = ""
    /\ exitStatus = Running
IdleTool == IdleSig /\ IdleMain

IdleDecode ==
    /\ heap = <<>>
    /\ lastCall = NoCall
    /\ decodeType = ""
    /\ decodeValue = <<>>
    /\ decodePc = "idle"
    /\ decodeResult = <<>>

IdleSlot ==
    /\ slotTable = EmptyMap
    /\ slotKey = ZeroHash
    /\ slotPc = "idle"
    /\ slotCur = <<>>
    /\ slotResult = DEFAULT_SLOT
    /\ slotChain = <<>>


\* No simulation has returned yet.
NoResult == [diffs |-> <<>>, isNil |-> TRUE, err |-> "pending"]

IdleSim == simResult = NoResult

IdleHist == lastWrite = EmptyMap /\ firstBefore = EmptyMap /\ balanceLog = EmptyMap

vars == <<storeVars, cfgVars, renderVars, slotVars, decodeVars, callVars, sigVars, mainVars, simVars, histVars>>

Init == InitStore /\ IdleCfg /\ IdleRender /\ IdleSlot /\ IdleDecode /\ IdleTool /\ IdleSim /\ IdleHist

Next ==
    \/ SetOverridesList
    \/ SetOverridesMalformed
    \/ DoGetState
    \/ DoSetState
    \/ DoSetNonce
    \/ DoAddPreimage

Spec == Init /\ [][Next]_vars

\* ------------------------------------------------------ claims on the store
\* The (address, key, value) triples of the recorded override list.
OverrideEntries ==
    LET flat == Flatten(Overrides) IN
    {<<flat[i].addr, flat[i].key, flat[i].value>> : i \in DOMAIN flat}

HasStorageDiff(ds, a, k) == a \in DOMAIN ds /\ k \in DOMAIN ds[a].StorageDiffs

\* C1: for every address and slot key, valueBefore is captured once, at the
\* first write recorded for the pair; no later step changes the valueBefore
\* of a recorded StorageDiff, whatever the values (the zero hash included).
C1_ValueBeforeCapturedOnce ==
    [][\A a \in Addrs, k \in Keys :
          HasStorageDiff(diffs, a, k)
              => diffs'[a].StorageDiffs[k].ValueBefore = diffs[a].StorageDiffs[k].ValueBefore]_vars

\* C2: right after applyOverrides, every overridden (address, slot) has
\* valueBefore equal to the literal value of an override of that slot, and no
\* StorageDiff has valueBefore different from valueAfter.
C2_OverrideSeedsLiteralValue ==
    (phase = "sim" /\ steps = 0) =>
        /\ \A e \in OverrideEntries :
              /\ HasStorageDiff(diffs, e[1], e[2])
              /\ \E f \in OverrideEntries :
                    /\ f[1] = e[1] /\ f[2] = e[2]
                    /\ diffs[e[1]].StorageDiffs[e[2]].ValueBefore = f[3]
        /\ \A a \in DOMAIN diffs : \A k \in DOMAIN diffs[a].StorageDiffs :
              diffs[a].StorageDiffs[k].ValueBefore = diffs[a].StorageDiffs[k].ValueAfter

\* The generator main builds on the store, with the configuration as shipped.
ReportGenerator == Generator(loadConfig(EmbeddedDoc).cfg, "1", preimages)

\* Whether the JSON state_changes of a rendering list slot k of address a.
RendersChange(stateChanges, a, k) ==
    \E i \in DOMAIN stateChanges :
        /\ stateChanges[i].Address = AddrHex(a)
        /\ \E j \in DOMAIN stateChanges[i].Changes :
              stateChanges[i].Changes[j].Key = HashHex(k)

\* C3: when an override {A, s, v} was applied (the only override of slot s of
\* A) and the simulation's writes of slot s of A all wrote the same value v,
\* the diff set has no change for slot s of A: the store records none (no
\* StorageDiff with valueBefore different from valueAfter) and no rendering
\* lists one.
C3_OverrideThenSameWriteLeavesNoDiff ==
    \A e \in OverrideEntries :
        (/\ e \in written
         /\ \A f \in OverrideEntries : (f[1] = e[1] /\ f[2] = e[2]) => f[3] = e[3]
         /\ \A w \in written : (w[1] = e[1] /\ w[2] = e[2]) => w[3] = e[3])
        => /\ HasStorageDiff(diffs, e[1], e[2]) =>
                 diffs[e[1]].StorageDiffs[e[2]].ValueBefore
                     = diffs[e[1]].StorageDiffs[e[2]].ValueAfter
           /\ \A order \in IterOrders(diffs) :
                 ~RendersChange(convertDiffsToJSON(ReportGenerator,
                                                   GetStateDiffs(diffs, order.addrs),
                                                   order.keys),
                                e[1], e[2])

\* ------------------------------------------------------- loading the config
InitConfig ==
    /\ doc \in Docs
    /\ cfgPhase = "embedded"
    /\ cfg = NoConfig
    /\ chainId \in ChainIds
    /\ lookupAddr = <<>>
    /\ lookupResult = DEFAULT_CONTRACT
    /\ IdleStore /\ IdleRender /\ IdleSlot /\ IdleDecode /\ IdleTool
    /\ IdleSim /\ IdleHist

\* NewFileGenerator's loadConfig: the configuration, or the error returned.
LoadConfig ==
    /\ cfgPhase = "embedded"
    /\ LET r == loadConfig(doc) IN
         /\ cfg' = r.cfg
         /\ cfgPhase' = IF r.err THEN "failed" ELSE "loaded"
    /\ UNCHANGED <<doc, chainId, lookupAddr, lookupResult, storeVars, renderVars, slotVars, decodeVars, callVars, sigVars, mainVars, simVars, histVars>>

\* The address strings getContractCfg is asked about: the configured
\* addresses b and c in either letter case, and d, which no document has.
Queries == {<<98>>, <<66>>, <<99>>, <<67>>, <<100>>}

\* A call of getContractCfg on the loaded configuration.
LookupContract ==
    /\ cfgPhase = "loaded"
    /\ \E address \in Queries :
         /\ lookupAddr' = address
         /\ lookupResult' = getContractCfg(cfg, chainId, address)
    /\ UNCHANGED <<doc, cfgPhase, cfg, chainId, storeVars, renderVars, slotVars, decodeVars, callVars, sigVars, mainVars, simVars, histVars>>

NextConfig == LoadConfig \/ LookupContract

SpecConfig == InitConfig /\ [][NextConfig]_vars

\* ------------------------------------------------------------------ getSlot
\* Rounds of getSlot's loop that are followed.
MaxRounds == 4

TableKeys == {<<49>>, <<51>>, <<97>>, <<65>>}
\* The entry a table holds under a key: told apart by its summary.
EntryFor(k) ==
    IF k = <<49>> THEN Slot("uint256", "entry 1", "")
    ELSE IF k = <<51>> THEN Slot("uint256", "entry 3", "")
    ELSE IF k = <<97>> THEN Slot("uint256", "entry a", "")
    ELSE Slot("uint256", "entry A", "")
SlotTables == {[k \in S |-> EntryFor(k)] : S \in SUBSET TableKeys}
\* The registries AddPreimage can leave behind.
Registries == UNION {[S -> Preimages] : S \in SUBSET Hash}

InitSlot ==
    /\ slotTable \in SlotTables
    /\ preimages \in Registries
    /\ slotKey \in Hash
    /\ slotPc = "call"
    /\ slotCur = <<slotKey>>
    /\ slotResult = DEFAULT_SLOT
    /\ slotChain = <<>>
    /\ build = "evm.go" /\ phase = "idle" /\ cache = EmptyMap /\ fetched = {} /\ diffs = EmptyMap
    /\ Overrides = <<>> /\ written = {} /\ steps = 0
    /\ IdleCfg /\ IdleRender /\ IdleDecode /\ IdleTool
    /\ IdleSim /\ IdleHist

\* The lookup before the loop: cfg.Slots[strings.ToLower(slot)].
SlotExact ==
    /\ slotPc = "call"
    /\ IF ToLower(HashHex(slotKey)) \in DOMAIN slotTable
       THEN /\ slotResult' = slotTable[ToLower(HashHex(slotKey))]
            /\ slotPc' = "done"
       ELSE /\ slotPc' = "loop"
            /\ UNCHANGED slotResult
    /\ UNCHANGED <<slotTable, slotKey, slotCur, slotChain, storeVars, cfgVars, renderVars, decodeVars, callVars, sigVars, mainVars, simVars, histVars>>

\* One round of the loop.
SlotRound ==
    /\ slotPc = "loop"
    /\ Len(slotChain) < MaxRounds
    /\ LET r == getSlotRound(slotTable, preimages, slotCur) IN
         /\ slotChain' = Append(slotChain, HexToHash(slotCur))
         /\ slotCur' = r.slot
         /\ slotResult' = r.result
         /\ slotPc' = IF r.done THEN "done" ELSE "loop"
    /\ UNCHANGED <<slotTable, slotKey, storeVars, cfgVars, renderVars, decodeVars, callVars, sigVars, mainVars, simVars, histVars>>

NextSlot == SlotExact \/ SlotRound

SpecSlot == InitSlot /\ [][NextSlot]_vars

\* ---------------------------------------------------------------- rendering
\* Renderings made on one generator.
MaxRenders == 2

\* The diff sets a simulation can leave: per address and key no diff, a
\* no-op diff (1 to 1) or a change (0 to 1); an address may have none at all
\* (only its nonce was set).
SlotDiff(key, before, after) ==
    [Key |-> key, ValueBefore |-> before, ValueAfter |-> after, Preimage |-> <<>>,
     isSet |-> TRUE]
StorageDiffMaps ==
    UNION {{[k \in S |-> SlotDiff(k, c[k], 1)] : c \in [S -> Vals]} : S \in SUBSET Keys}
DiffSets ==
    UNION {{[a \in A |-> [NewStateDiff(a) EXCEPT !.StorageDiffs = m[a]]] :
               m \in [A -> StorageDiffMaps]} : A \in SUBSET Addrs}
\* The override lists of the payloads above whose values are all 1 and whose
\* records name different contracts.
RenderOverrides ==
    {l \in OverrideLists :
        /\ \A i \in DOMAIN l : \A j \in DOMAIN l[i].Storage : l[i].Storage[j].Value = 1
        /\ \A i, j \in DOMAIN l : l[i].ContractAddress = l[j].ContractAddress => i = j}
\* Slot a was revealed as a mapping slot with base slot 1.
RenderRegistries == {(10 :> <<0, 1>>)}

NoJSON == [StateOverrides |-> <<>>, StateChanges |-> <<>>]

\* The state after the simulation and NewFileGenerator.
InitRender ==
    /\ build = "evm.go"
    /\ phase = "simulated"
    /\ diffs \in DiffSets
    /\ cache = [ck \in {EvmGetStorageCacheKey(q[1], q[2]) :
                           q \in {p \in Addrs \X Keys :
                                     /\ p[1] \in DOMAIN diffs
                                     /\ p[2] \in DOMAIN diffs[p[1]].StorageDiffs}}
                  |-> 1]
    /\ preimages \in RenderRegistries
    /\ fetched = {}
    /\ Overrides \in RenderOverrides
    /\ written = {}
    /\ steps = 0
    /\ doc = EmbeddedDoc
    /\ cfgPhase = "loaded"
    /\ cfg = loadConfig(EmbeddedDoc).cfg
    /\ chainId \in ChainIds
    /\ lookupAddr = <<>>
    /\ lookupResult = DEFAULT_CONTRACT
    /\ safe = 11
    /\ template = starterTemplate
    /\ outs = <<>>
    /\ IdleSlot /\ IdleDecode /\ IdleTool
    /\ IdleSim /\ IdleHist

\* A rendering is made while the process runs: none has panicked or hung.
CanRender ==
    /\ cfgPhase = "loaded"
    /\ Len(outs) < MaxRenders
    /\ \A i \in DOMAIN outs : outs[i].outcome = "ok"

\* BuildValidationJSONForTool on GetOverrides() and GetStateDiffs().  The
\* sorts of the overrides are in place, on the store's own list.
RenderJSON ==
    /\ CanRender
    /\ \E order \in IterOrders(diffs) :
         LET g == Generator(cfg, chainId, preimages)
             r == BuildValidationJSONForTool(g, Overrides,
                                             GetStateDiffs(diffs, order.addrs), order.keys)
         IN  outs' = Append(outs,
                 [kind |-> "json",
                  outcome |-> IF r.returns THEN "ok" ELSE "no return",
                  json |-> IF r.returns
                           THEN [StateOverrides |-> r.StateOverrides,
                                 StateChanges |-> r.StateChanges]
                           ELSE NoJSON,
                  md |-> <<>>])
    /\ Overrides' = SortOverrides(Overrides)
    /\ UNCHANGED <<build, phase, cache, diffs, preimages, fetched, written, steps,
                   cfgVars, safe, template, slotVars, decodeVars, callVars, sigVars, mainVars, simVars, histVars>>

\* BuildValidationFile on the same inputs; it rewrites g.template.
RenderMD ==
    /\ CanRender
    /\ \E order \in IterOrders(diffs) :
         LET g == Generator(cfg, chainId, preimages)
             r == BuildValidationFile(g, template, AddrHex(safe), Overrides, diffs, order)
         IN  /\ template' = r.tpl
             /\ outs' = Append(outs,
                    [kind |-> "md", outcome |-> r.outcome, json |-> NoJSON,
                     md |-> IF r.outcome = "ok" THEN r.tpl ELSE <<>>])
    /\ Overrides' = SortOverrides(Overrides)
    /\ UNCHANGED <<build, phase, cache, diffs, preimages, fetched, written, steps,
                   cfgVars, safe, slotVars, decodeVars, callVars, sigVars, mainVars, simVars, histVars>>

NextRender == RenderJSON \/ RenderMD

SpecRender == InitRender /\ [][NextRender]_vars

\* --------------------------------------------------- claims on the renderers
\* The text a placeholder of the Markdown template was replaced by.
PieceBody(tpl, kind) ==
    IF IndexOf(tpl, kind) = -1 THEN <<>> ELSE tpl[IndexOf(tpl, kind)].body

Returned == {i \in DOMAIN outs : outs[i].outcome = "ok"}

IsNoOp(sd) == sd.ValueBefore = sd.ValueAfter

\* C4: every storage change entry of a rendered report, in the Markdown
\* state-changes section and in the JSON state_changes, has before different
\* from after.
C4_NoNoOpEntryRendered ==
    \A i \in Returned :
        /\ \A n \in DOMAIN outs[i].json.StateChanges :
              \A j \in DOMAIN outs[i].json.StateChanges[n].Changes :
                  outs[i].json.StateChanges[n].Changes[j].Before
                      # outs[i].json.StateChanges[n].Changes[j].After
        /\ LET body == PieceBody(outs[i].md, "state changes") IN
           \A j \in DOMAIN body :
               body[j].kind = "change" => body[j].Before # body[j].After

\* An address with a no-op diff and a change was rendered by both renderers,
\* and both list an entry for it.
C4_Witness ==
    \E a \in DOMAIN diffs :
        /\ \E k \in DOMAIN diffs[a].StorageDiffs : IsNoOp(diffs[a].StorageDiffs[k])
        /\ \E k \in DOMAIN diffs[a].StorageDiffs : ~IsNoOp(diffs[a].StorageDiffs[k])
        /\ \E i \in Returned :
              /\ outs[i].kind = "json"
              /\ \E n \in DOMAIN outs[i].json.StateChanges :
                    outs[i].json.StateChanges[n].Address = AddrHex(a)
        /\ \E i \in Returned :
              /\ outs[i].kind = "md"
              /\ \E j \in DOMAIN PieceBody(outs[i].md, "state changes") :
                    /\ PieceBody(outs[i].md, "state changes")[j].kind = "change"
                    /\ PieceBody(outs[i].md, "state changes")[j].Address = AddrHex(a)

\* The addresses of the diff set whose storage diffs are all no-ops, or
\* which have none.
QuietAddrs ==
    {a \in DOMAIN diffs : \A k \in DOMAIN diffs[a].StorageDiffs : IsNoOp(diffs[a].StorageDiffs[k])}

\* C5: for an address whose storage diffs are all no-ops, or which has none,
\* the rendered state changes hold nothing, neither a contract heading nor an
\* entry, in the Markdown and in the JSON rendering.
C5_QuietAddressNotRendered ==
    \A i \in Returned : \A a \in QuietAddrs :
        /\ \A n \in DOMAIN outs[i].json.StateChanges :
              outs[i].json.StateChanges[n].Address # AddrHex(a)
        /\ \A j \in DOMAIN PieceBody(outs[i].md, "state changes") :
              PieceBody(outs[i].md, "state changes")[j].Address # AddrHex(a)

\* Sections in ascending order of address string, the entries of each in
\* ascending order of key string.
SectionsOrdered(sections, Entries(_)) ==
    /\ \A i, j \in DOMAIN sections :
          i < j => ~StrLess(sections[j].Address, sections[i].Address)
    /\ \A n \in DOMAIN sections : \A i, j \in DOMAIN Entries(sections[n]) :
          i < j => ~StrLess(Entries(sections[n])[j].Key, Entries(sections[n])[i].Key)

\* The same of a Markdown section: headings and entries in one sequence.
BodyOrdered(body) ==
    \A i, j \in DOMAIN body :
        i < j =>
            /\ ~StrLess(body[j].Address, body[i].Address)
            /\ (/\ body[i].kind # "heading"
                /\ body[j].kind # "heading"
                /\ body[i].Address = body[j].Address)
               => ~StrLess(body[j].Key, body[i].Key)

OverridesOf(section) == section.Overrides
ChangesOf(section) == section.Changes

C7_RenderingRepeatable ==
    \A i, j \in DOMAIN outs : outs[i].kind = outs[j].kind => outs[i] = outs[j]

\* --------------------------------------------------------- claims on getSlot
NoExactEntry == ToLower(HashHex(slotKey)) \notin DOMAIN slotTable

\* C8: when the table has an entry whose key equals the slot key, compared
\* without regard to case, getSlot returns such an entry, whatever preimages
\* are recorded.
C8_ExactMatchWins ==
    slotPc = "done" =>
        ((\E k \in DOMAIN slotTable : ToLower(k) = ToLower(HashHex(slotKey)))
         => \E k \in DOMAIN slotTable :
               /\ ToLower(k) = ToLower(HashHex(slotKey))
               /\ slotResult = slotTable[k])

\* C9 as stated: without an exact entry, getSlot returns the entry for the
\* second word of the key's preimage when that preimage is 64 bytes and the
\* table has the entry, and the default slot in every other case.
C9_SecondWordOrDefault ==
    (slotPc = "done" /\ NoExactEntry) =>
        LET pre == PreimageOf(preimages, slotKey) IN
        IF Len(pre) = 2 /\ HashHex(pre[2]) \in DOMAIN slotTable
        THEN slotResult = slotTable[HashHex(pre[2])]
        ELSE slotResult = DEFAULT_SLOT

\* C9 amended: without an exact entry, getSlot walks the chain of recorded
\* 64-byte preimages (the key's preimage, then the preimage of its second
\* word, and so on) while the second word has no entry; it returns the entry
\* of the first second word that has one, and the default slot when the
\* chain reaches a hash whose preimage is missing or not 64 bytes.
C9_FollowsPreimageChain ==
    (slotPc = "done" /\ NoExactEntry) =>
        LET n == Len(slotChain)
            pre(h) == PreimageOf(preimages, h)
        IN  /\ n >= 1
            /\ slotChain[1] = slotKey
            /\ \A i \in 1..(n - 1) :
                  /\ Len(pre(slotChain[i])) = 2
                  /\ pre(slotChain[i])[2] = slotChain[i + 1]
                  /\ HashHex(slotChain[i + 1]) \notin DOMAIN slotTable
            /\ IF Len(pre(slotChain[n])) = 2
               THEN /\ HashHex(pre(slotChain[n])[2]) \in DOMAIN slotTable
                    /\ slotResult = slotTable[HashHex(pre(slotChain[n])[2])]
               ELSE slotResult = DEFAULT_SLOT

\* getSlot returned an entry found two preimages down the chain.
C9_Witness ==
    /\ slotPc = "done"
    /\ NoExactEntry
    /\ Len(slotChain) = 2
    /\ slotResult # DEFAULT_SLOT

\* ------------------------------------------------- claims on the config load
\* C10: after a load that succeeded, every contract whose slots field is the
\* reference to a template of the storage-layouts table has exactly that
\* template's slots, so contracts that share a template have the same slots.
C10_ReferenceResolvesToTemplate ==
    cfgPhase = "loaded" =>
        \A c \in DOMAIN doc.Contracts : \A a \in DOMAIN doc.Contracts[c] :
            LET raw == doc.Contracts[c][a] IN
            (raw.Slots.kind = "ref" /\ raw.Slots.name \in DOMAIN doc.StorageLayouts)
            => /\ c \in DOMAIN cfg.Contracts
               /\ a \in DOMAIN cfg.Contracts[c]
               /\ cfg.Contracts[c][a].Slots = doc.StorageLayouts[raw.Slots.name]
               /\ \A b \in DOMAIN doc.Contracts[c] :
                     doc.Contracts[c][b].Slots = raw.Slots
                     => cfg.Contracts[c][b].Slots = cfg.Contracts[c][a].Slots

\* A load succeeded on a document whose two contracts share one template.
C10_Witness ==
    /\ cfgPhase = "loaded"
    /\ \A a \in DOMAIN doc.Contracts["1"] :
          doc.Contracts["1"][a].Slots = SlotsRef("gnosis-safe")
    /\ \A a \in DOMAIN cfg.Contracts["1"] :
          cfg.Contracts["1"][a].Slots = GnosisSafeLayout

\* The contracts of the document whose slots field satisfies P.
ContractsWith(P(_)) ==
    {ca \in UNION {{<<c, a>> : a \in DOMAIN doc.Contracts[c]} : c \in DOMAIN doc.Contracts} :
        P(doc.Contracts[ca[1]][ca[2]].Slots)}

IsDanglingRef(slots) == slots.kind = "ref" /\ slots.name \notin DOMAIN doc.StorageLayouts

\* C11: when some contract's slots reference names a storage layout that is
\* not in the storage-layouts table, the load fails and returns no
\* configuration, not even a partial one.
C11_DanglingReferenceFailsLoad ==
    (cfgPhase # "embedded" /\ ContractsWith(IsDanglingRef) # {})
        => cfgPhase = "failed" /\ cfg = NoConfig

\* A load failed on a document with one dangling reference and one contract
\* that resolves.
C11_Witness ==
    /\ cfgPhase = "failed"
    /\ doc.StorageLayouts = AllLayouts
    /\ <<99>> \in DOMAIN doc.Contracts["1"]
    /\ doc.Contracts["1"][<<98>>].Slots = SlotsRef("gnosis-safe")
    /\ doc.Contracts["1"][<<99>>].Slots = SlotsRef("missing")

IsInlineOrAbsent(slots) == slots.kind \in {"map", "nil"}
IsAny(slots) == TRUE

\* C12: a document whose contracts give their slots inline, or give none,
\* loads; a contract with inline slots has that table as its slots and a
\* contract without a slots field has an empty slot mapping.
C12_InlineSlotsLoad ==
    (cfgPhase # "embedded" /\ ContractsWith(IsInlineOrAbsent) = ContractsWith(IsAny))
        => /\ cfgPhase = "loaded"
           /\ \A ca \in ContractsWith(IsAny) :
                 /\ ca[1] \in DOMAIN cfg.Contracts
                 /\ ca[2] \in DOMAIN cfg.Contracts[ca[1]]
                 /\ cfg.Contracts[ca[1]][ca[2]].Slots = doc.Contracts[ca[1]][ca[2]].Slots.table

\* The addresses the document configures for the generator's chain.
Configured == IF chainId \in DOMAIN doc.Contracts THEN DOMAIN doc.Contracts[chainId] ELSE {}

\* C13: getContractCfg returns the configured contract whenever the chain
\* has an entry whose address equals the queried address ignoring letter
\* case, however the document and the query write their hex letters.
C13_AddressLookupIgnoresCase ==
    (cfgPhase = "loaded" /\ lookupAddr # <<>>) =>
        \A a \in Configured :
            ToLower(a) = ToLower(lookupAddr)
                => lookupResult.Name = doc.Contracts[chainId][a].Name

\* ------------------------------------------------ claims on missing metadata
\* The configuration has no contract for the address on the generator's chain.
Absent(address) ==
    ~(chainId \in DOMAIN cfg.Contracts /\ ToLower(address) \in DOMAIN cfg.Contracts[chainId])
SlotsOf(address) ==
    IF Absent(address) THEN EmptyMap ELSE cfg.Contracts[chainId][ToLower(address)].Slots
\* The slot table of the address knows neither the key nor the second word
\* of any recorded 64-byte preimage.
UnknownSlot(address, key) ==
    /\ ToLower(key) \notin DOMAIN SlotsOf(address)
    /\ \A h \in DOMAIN preimages :
          Len(preimages[h]) = 2 => HashHex(preimages[h][2]) \notin DOMAIN SlotsOf(address)

\* The Markdown entries of a rendering, of both sections.
MDEntries(out) ==
    PieceBody(out.md, "state overrides") \o PieceBody(out.md, "state changes")

WordDigits == 2
HexChars == {HexDigit(n) : n \in 0..15}
\* Hash.Hex() of every value of that width.
DecodeValues == [1..WordDigits -> HexChars]
\* The type tags of contracts.yaml, the placeholder type and one more.
DecodeTypes == {"uint256", "address", "hybrid", "<<DecodedKind>>", "bytes32"}

InitDecode ==
    /\ heap = <<>>
    /\ lastCall = NoCall
    /\ decodeType \in DecodeTypes
    /\ decodeValue \in DecodeValues
    /\ decodePc = "call"
    /\ decodeResult = <<>>
    /\ IdleStore /\ IdleCfg /\ IdleRender /\ IdleSlot /\ IdleTool
    /\ IdleSim /\ IdleHist

Decode ==
    /\ decodePc = "call"
    /\ decodeResult' = getDecodedValue(decodeType, decodeValue)
    /\ decodePc' = "done"
    /\ UNCHANGED <<decodeType, decodeValue, storeVars, cfgVars, renderVars, slotVars, callVars, sigVars, mainVars, simVars, histVars>>

NextDecode == Decode

SpecDecode == InitDecode /\ [][NextDecode]_vars

RECURSIVE Pow(_, _)
Pow(b, e) == IF e = 0 THEN 1 ELSE b * Pow(b, e - 1)
\* The unsigned integer a digit string spells in a base, most significant
\* digit first.
Unsigned(digits, base) ==
    LET RECURSIVE Sum(_)
        Sum(i) == IF i > Len(digits) THEN 0
                  ELSE digits[i] * Pow(base, Len(digits) - i) + Sum(i + 1)
    IN  Sum(1)
IsDecimal(str) ==
    /\ Len(str) >= 1
    /\ \A i \in DOMAIN str : str[i] \in 48..57
    /\ Len(str) > 1 => str[1] # 48

\* C15: getDecodedValue returns, for type uint256, the decimal string of the
\* value read as a big-endian unsigned integer (42 for 0x..2a); for type
\* address, the low digits of the value as a hex address; for every other
\* type tag the non-empty placeholder <<DecodedValue>>.
C15_DecodedValue ==
    decodePc = "done" =>
        LET number == Unsigned([i \in DOMAIN decodeValue |-> HexVal(decodeValue[i])], 16) IN
        /\ decodeType = "uint256" =>
              /\ IsDecimal(decodeResult)
              /\ Unsigned([i \in DOMAIN decodeResult |-> decodeResult[i] - 48], 10) = number
              /\ number = 42 => decodeResult = <<52, 50>>
        /\ decodeType = "address" =>
              ToLower(decodeResult) = SubSeq(decodeValue, Len(decodeValue) - AddrDigits + 1,
                                        Len(decodeValue))
        /\ decodeType \notin {"uint256", "address"} =>
              /\ decodeResult # <<>>
              /\ decodeResult = DecodedPlaceholder

\* 0x..2a was decoded as uint256 and gave "42".
C15_Witness ==
    /\ decodePc = "done"
    /\ decodeType = "uint256"
    /\ decodeValue[Len(decodeValue) - 1] = 50 /\ decodeValue[Len(decodeValue)] = 97
    /\ decodeResult = <<52, 50>>

\* ------------------------------------------------ balances, code and reads
MaxCalls == 2
Amounts == {1, 2}
Codes == {<<>>, <<96>>}
CodeOutcomes == {[err |-> TRUE, code |-> <<>>]} \cup {[err |-> FALSE, code |-> c] : c \in Codes}

\* The store as the engine finds it during the simulation.
InitAccount ==
    /\ build \in Builds
    /\ phase = "sim"
    /\ cache = EmptyMap /\ fetched = {}
    /\ diffs = EmptyMap
    /\ preimages = EmptyMap
    /\ Overrides = <<>>
    /\ written = {}
    /\ steps = 0
    /\ heap = <<>>
    /\ lastCall = NoCall
    /\ decodeType = "" /\ decodeValue = <<>> /\ decodePc = "idle" /\ decodeResult = <<>>
    /\ IdleCfg /\ IdleRender /\ IdleSlot /\ IdleTool
    /\ IdleSim /\ IdleHist

CanCall == phase = "sim" /\ steps < MaxCalls

\* The history of balance changes after one more: the balance read at the
\* first call stays, the signed amount is added to the net change.
Logged(log, addr, read, amount) ==
    IF addr \in DOMAIN log
    THEN Put(log, addr, [log[addr] EXCEPT !.net = (@ + amount) % BalanceMod])
    ELSE Put(log, addr, [first |-> read, net |-> amount % BalanceMod])

CallGetBalance ==
    /\ CanCall
    /\ \E addr \in Addrs, fetch \in FetchOutcomes :
         LET r == GetBalance(DB, heap, addr, fetch) IN
         /\ Install(r.db)
         /\ heap' = r.heap
         /\ lastCall' = Call("GetBalance", addr, getBalanceCacheKey(addr), getBalanceCacheKey(addr) \in DOMAIN cache,
                             fetch = FetchErr, 0, r.heap[r.ptr], <<>>)
    /\ steps' = steps + 1
    /\ UNCHANGED <<build, phase, written, cfgVars, renderVars, slotVars, decodeVars, sigVars, mainVars, simVars, histVars>>

CallGetCode ==
    /\ CanCall
    /\ \E addr \in Addrs, fetch \in CodeOutcomes :
         LET r == GetCode(DB, addr, fetch) IN
         /\ Install(r.db)
         /\ lastCall' = Call("GetCode", addr, getCodeCacheKey(addr), getCodeCacheKey(addr) \in DOMAIN cache,
                             fetch.err, 0, 0, r.code)
    /\ steps' = steps + 1
    /\ UNCHANGED <<build, phase, written, heap, cfgVars, renderVars, slotVars, decodeVars, sigVars, mainVars, simVars, histVars>>

CallGetState ==
    /\ CanCall
    /\ \E addr \in Addrs, key \in Keys, fetch \in FetchOutcomes :
         LET r == GetState(DB, addr, key, fetch) IN
         /\ Install(r.db)
         /\ lastCall' = Call("GetState", addr, getStorageCacheKey(addr, key), getStorageCacheKey(addr, key) \in DOMAIN cache,
                             fetch = FetchErr, 0, r.value, <<>>)
    /\ steps' = steps + 1
    /\ UNCHANGED <<build, phase, written, heap, cfgVars, renderVars, slotVars, decodeVars, sigVars, mainVars, simVars, histVars>>

CallGetNonce ==
    /\ CanCall
    /\ \E addr \in Addrs, fetch \in NonceOutcomes :
         LET r == GetNonce(DB, addr, fetch) IN
         /\ Install(r.db)
         /\ lastCall' = Call("GetNonce", addr, getNonceCacheKey(addr), getNonceCacheKey(addr) \in DOMAIN cache,
                             fetch = FetchErr, 0, r.value, <<>>)
    /\ steps' = steps + 1
    /\ UNCHANGED <<build, phase, written, heap, cfgVars, renderVars, slotVars, decodeVars, sigVars, mainVars, simVars, histVars>>

CallAddBalance ==
    /\ CanCall
    /\ \E addr \in Addrs, amount \in Amounts, fetch \in FetchOutcomes :
         LET r == AddBalance(DB, heap, addr, amount, fetch) IN
         /\ Install(r.db)
         /\ heap' = r.heap
         /\ lastCall' = Call("AddBalance", addr, getBalanceCacheKey(addr), getBalanceCacheKey(addr) \in DOMAIN cache,
                             fetch = FetchErr, r.before, r.value, <<>>)
         /\ balanceLog' = Logged(balanceLog, addr, r.before, amount)
    /\ steps' = steps + 1
    /\ UNCHANGED <<build, phase, written, lastWrite, firstBefore, cfgVars, renderVars, slotVars, decodeVars, sigVars, mainVars, simVars>>

CallSubBalance ==
    /\ CanCall
    /\ \E addr \in Addrs, amount \in Amounts, fetch \in FetchOutcomes :
         LET r == SubBalance(DB, heap, addr, amount, fetch) IN
         /\ Install(r.db)
         /\ heap' = r.heap
         /\ lastCall' = Call("SubBalance", addr, getBalanceCacheKey(addr), getBalanceCacheKey(addr) \in DOMAIN cache,
                             fetch = FetchErr, r.before, r.value, <<>>)
         /\ balanceLog' = Logged(balanceLog, addr, r.before, 0 - amount)
    /\ steps' = steps + 1
    /\ UNCHANGED <<build, phase, written, lastWrite, firstBefore, cfgVars, renderVars, slotVars, decodeVars, sigVars, mainVars, simVars>>

CallSetState ==
    /\ CanCall
    /\ \E addr \in Addrs, key \in Keys, value \in Vals, fetch \in FetchOutcomes :
         LET r == SetState(DB, addr, key, value, fetch) IN
         /\ Install(r.db)
         /\ lastCall' = Call("SetState", addr, getStorageCacheKey(addr, key), getStorageCacheKey(addr, key) \in DOMAIN cache,
                             fetch = FetchErr, GetState(DB, addr, key, fetch).value, r.value, <<>>)
    /\ steps' = steps + 1
    /\ UNCHANGED <<build, phase, written, heap, cfgVars, renderVars, slotVars, decodeVars, sigVars, mainVars, simVars, histVars>>

CallSetNonce ==
    /\ CanCall
    /\ \E addr \in Addrs, nonce \in Nonces, fetch \in NonceOutcomes :
         /\ Install(SetNonce(DB, addr, nonce, fetch))
         /\ lastCall' = Call("SetNonce", addr, getNonceCacheKey(addr), getNonceCacheKey(addr) \in DOMAIN cache,
                             fetch = FetchErr, GetNonce(DB, addr, fetch).value, 0, <<>>)
    /\ steps' = steps + 1
    /\ UNCHANGED <<build, phase, written, heap, cfgVars, renderVars, slotVars, decodeVars, sigVars, mainVars, simVars, histVars>>

\* The methods of the engine's interface the store does nothing for, and
\* those among them that take an address.
NoOps == {"Exist", "Empty", "Snapshot", "RevertToSnapshot", "AddAddressToAccessList",
          "AddSlotToAccessList", "AddressInAccessList", "SlotInAccessList",
          "GetTransientState", "SetTransientState", "SelfDestruct", "HasSelfDestructed",
          "AddLog"}
OnAddress == NoOps \ {"Snapshot", "RevertToSnapshot", "AddLog"}

\* What each returns; the methods without a result are given a 0.
NoOpResult(op) ==
    IF op \in {"Exist", "AddressInAccessList", "SlotInAccessList"} THEN TRUE
    ELSE IF op \in {"Empty", "HasSelfDestructed"} THEN FALSE
    ELSE IF op = "GetTransientState" THEN ZeroHash
    ELSE 0

\* A store whose RevertToSnapshot drops the diffs recorded so far.
NoOpReverting(db, op) ==
    [db |-> IF op = "RevertToSnapshot" THEN [db EXCEPT !.diffs = EmptyMap] ELSE db,
     ret |-> NoOpResult(op)]

\* Each of them returns its fixed result and leaves the store alone.
NoOp(db, op) == [db |-> db, ret |-> NoOpResult(op)]

CallNoOp ==
    /\ CanCall
    /\ \E op \in NoOps, addr \in Addrs :
         LET r == NoOp(DB, op) IN
         /\ Install(r.db)
         /\ lastCall' = Call(op, IF op \in OnAddress THEN addr ELSE 0, <<>>, FALSE, FALSE,
                             0, r.ret, <<>>)
    /\ steps' = steps + 1
    /\ UNCHANGED <<build, phase, written, heap, cfgVars, renderVars, slotVars, decodeVars, sigVars, mainVars, simVars, histVars>>

\* What evm.Call may return to SimulateTransaction.
CallOutcomes == {"", "execution reverted", "out of gas"}

SimulateTransactionKeepsDiffs(ds, order, callErr) ==
    [diffs |-> GetStateDiffs(ds, order), isNil |-> FALSE, err |-> callErr]

\* SimulateTransaction once evm.Call has returned: nil and a wrapped error
\* when the call failed, GetStateDiffs() and no error otherwise.
SimulateTransaction(ds, order, callErr) ==
    IF callErr # ""
    THEN [diffs |-> <<>>, isNil |-> TRUE,
          err |-> IF callErr = "execution reverted"
                  THEN "transaction reverted during simulation"
                  ELSE "failed to execute transaction simulation"]
    ELSE [diffs |-> GetStateDiffs(ds, order), isNil |-> FALSE, err |-> ""]

\* evm.Call returns and SimulateTransaction hands its result to main.
CallSimulate ==
    /\ phase = "sim"
    /\ \E callErr \in CallOutcomes, order \in Perms(DOMAIN diffs) :
         simResult' = SimulateTransaction(diffs, order, callErr)
    /\ phase' = "simulated"
    /\ UNCHANGED <<build, cache, diffs, preimages, Overrides, fetched, written, steps, cfgVars,
                   renderVars, slotVars, decodeVars, callVars, sigVars, mainVars, histVars>>

NextAccount ==
    \/ CallGetBalance
    \/ CallGetCode
    \/ CallGetState
    \/ CallGetNonce
    \/ CallAddBalance
    \/ CallSubBalance
    \/ CallSetState
    \/ CallSetNonce
    \/ CallNoOp
    \/ CallSimulate

SpecAccount == InitAccount /\ [][NextAccount]_vars

Getters == {"GetBalance", "GetCode", "GetState", "GetNonce"}

\* C16: a read that misses the cache and whose remote fetch fails returns
\* the zero value of its kind (balance 0, empty code, the zero hash, nonce
\* 0), leaves the cache and the diff map as they were and leaves the store
\* running.
C16_FailedFetchGivesZero ==
    [][(steps' = steps + 1 /\ lastCall'.op \in Getters /\ ~lastCall'.hit /\ lastCall'.failed)
        => /\ lastCall'.op \in {"GetBalance", "GetNonce"} => lastCall'.ret = 0
           /\ lastCall'.op = "GetState" => lastCall'.ret = ZeroHash
           /\ lastCall'.op = "GetCode" => lastCall'.code = <<>>
           /\ cache' = cache
           /\ diffs' = diffs
           /\ phase' = "sim"]_vars

\* A balance read failed after an earlier call had filled the cache and the
\* diff map.
C16_Witness ==
    /\ lastCall.op = "GetBalance"
    /\ ~lastCall.hit
    /\ lastCall.failed
    /\ lastCall.ret = 0
    /\ cache # EmptyMap
    /\ diffs # EmptyMap

\* C17: AddBalance and SubBalance return the balance the address had
\* immediately before the call, on the first call for an address and on
\* every later one.
C17_BalanceChangeReturnsPrior ==
    lastCall.op \in {"AddBalance", "SubBalance"} => lastCall.ret = lastCall.before

\* ------------------------------------------- claims on malformed payloads
\* C18: SetOverrides on a payload that does not decode returns with the
\* store running: no override is applied, so the cache and the diff map are
\* as they were and the recorded override list is empty, and the simulation
\* goes on.
C18_MalformedPayloadIgnored ==
    [][SetOverridesMalformed
        => /\ phase' = "sim"
           /\ cache' = cache
           /\ diffs' = diffs
           /\ Overrides' = <<>>]_vars

\* ------------------------------------------------------ the signing payload
\* The EIP-712 payload is SigPrefixLen + 2 * HashLen bytes: a prefix, the
\* domain hash and the message hash.
SigPrefixLen == 1
HashLen == 1
SigLen == SigPrefixLen + 2 * HashLen

IsHex(c) == c \in (48..57) \cup (97..102) \cup (65..70)
IsSpace(c) == c \in {9, 10, 13, 32}

\* strings.TrimSpace
RECURSIVE TrimSpace(_)
TrimSpace(str) ==
    IF str = <<>> THEN str
    ELSE IF IsSpace(str[1]) THEN TrimSpace(Tail(str))
    ELSE IF IsSpace(str[Len(str)]) THEN TrimSpace(SubSeq(str, 1, Len(str) - 1))
    ELSE str

\* strings.HasPrefix
HasPrefix(str, pre) == Len(str) >= Len(pre) /\ SubSeq(str, 1, Len(pre)) = pre

\* strings.Index: the offset of the first occurrence, -1 when there is none.
StringsIndex(str, sub) ==
    LET At == {i \in 0..(Len(str) - Len(sub)) : SubSeq(str, i + 1, i + Len(sub)) = sub}
    IN  IF At = {} THEN -1 ELSE CHOOSE i \in At : \A j \in At : i <= j

\* encoding/hex DecodeString: the bytes decoded before the first character
\* that is no hex digit, with an error for such a character and for an odd
\* length.
RECURSIVE HexDecodeString(_)
HexDecodeString(str) ==
    IF Len(str) < 2 THEN [bytes |-> <<>>, err |-> Len(str) = 1]
    ELSE IF ~IsHex(str[1]) \/ ~IsHex(str[2]) THEN [bytes |-> <<>>, err |-> TRUE]
    ELSE LET rest == HexDecodeString(SubSeq(str, 3, Len(str))) IN
         [bytes |-> <<16 * HexVal(str[1]) + HexVal(str[2])>> \o rest.bytes,
          err |-> rest.err]

\* common.Hex2Bytes drops the error of DecodeString.
Hex2Bytes(str) == HexDecodeString(str).bytes

\* common.FromHex on any text: the 0x or 0X prefix is dropped, an odd
\* number of characters gets a leading "0", then Hex2Bytes.
CommonFromHex(str) ==
    LET noPrefix == IF Len(str) >= 2 /\ str[1] = 48 /\ str[2] \in {120, 88}
                    THEN SubSeq(str, 3, Len(str)) ELSE str
        padded == IF Len(noPrefix) % 2 = 1 THEN <<48>> \o noPrefix ELSE noPrefix
    IN  Hex2Bytes(padded)

\* hash[2:34] and hash[34:66].
Hashes(hash) ==
    [err |-> FALSE,
     domainHash |-> SubSeq(hash, SigPrefixLen + 1, SigPrefixLen + HashLen),
     messageHash |-> SubSeq(hash, SigPrefixLen + HashLen + 1, SigLen)]

\* main.go parseSigningData.
parseSigningData(signingData) ==
    LET text == IF HasPrefix(signingData, <<48, 120>>)
                THEN SubSeq(signingData, 3, Len(signingData)) ELSE signingData
        hash == HexDecodeString(text)
    IN  IF Len(text) # 2 * SigLen THEN NoHashes
        ELSE IF hash.err THEN NoHashes
        ELSE Hashes(hash.bytes)

\* parseInput: the text after the first prefix marker and before the first
\* suffix marker after it.
BetweenMarkers(input, prefix, suffix) ==
    LET i == StringsIndex(input, prefix)
        cut == IF prefix # <<>> /\ i >= 0
               THEN SubSeq(input, i + Len(prefix) + 1, Len(input)) ELSE input
        j == StringsIndex(cut, suffix)
    IN  IF suffix # <<>> /\ j >= 0 THEN SubSeq(cut, 1, j) ELSE cut

\* command.parseInput, as far as the two hashes.
parseInput(input, prefix, suffix) ==
    LET hash == CommonFromHex(TrimSpace(BetweenMarkers(input, prefix, suffix))) IN
    IF Len(hash) # SigLen THEN NoHashes ELSE Hashes(hash)

\* The markers (the flags' defaults, two characters long here).
Prefix == <<118, 118>>
Suffix == <<94, 94>>

MaxSigChars == 7
\* Two hex digits and a character that is none.
SigChars == {49, 97, 122}
SigTexts == UNION {[1..n -> SigChars] : n \in 0..MaxSigChars}
SigPayloads == SigTexts \cup {<<48, 120>> \o t : t \in SigTexts}
\* The output of the script: the payload between the markers, or bare.
ScriptOutputs ==
    {lead \o space \o payload \o space \o trail :
        lead \in {<<>>, <<122>> \o Prefix}, space \in {<<>>, <<10>>},
        payload \in SigPayloads, trail \in {<<>>, Suffix \o <<122>>}}

InitSigning ==
    /\ sigParser \in {"parseSigningData", "parseInput"}
    /\ sigInput \in IF sigParser = "parseSigningData" THEN SigPayloads ELSE ScriptOutputs
    /\ sigPc = "call"
    /\ sigResult = NoHashes
    /\ IdleStore /\ IdleCfg /\ IdleRender /\ IdleSlot /\ IdleDecode /\ IdleMain
    /\ IdleSim /\ IdleHist

ParseSigning ==
    /\ sigPc = "call"
    /\ sigResult' = IF sigParser = "parseSigningData" THEN parseSigningData(sigInput)
                    ELSE parseInput(sigInput, Prefix, Suffix)
    /\ sigPc' = "done"
    /\ UNCHANGED <<sigParser, sigInput, storeVars, cfgVars, renderVars, slotVars,
                   decodeVars, callVars, mainVars, simVars, histVars>>

NextSigning == ParseSigning

SpecSigning == InitSigning /\ [][NextSigning]_vars

\* The payload handed to the parser: the flag's value, or the text between
\* the markers without the white space around it.
Payload ==
    IF sigParser = "parseSigningData" THEN sigInput
    ELSE TrimSpace(BetweenMarkers(sigInput, Prefix, Suffix))
\* Its hex digits, after the optional 0x.
PayloadDigits ==
    IF HasPrefix(Payload, <<48, 120>>) THEN SubSeq(Payload, 3, Len(Payload)) ELSE Payload
\* The payload is the hex encoding of exactly SigLen bytes.
EncodesSigLenBytes ==
    /\ Len(PayloadDigits) = 2 * SigLen
    /\ \A i \in DOMAIN PayloadDigits : IsHex(PayloadDigits[i])
PayloadByte(i) == 16 * HexVal(PayloadDigits[2 * i - 1]) + HexVal(PayloadDigits[2 * i])

\* C19: a payload that is not the hex encoding of exactly 66 bytes is
\* rejected with an error and no hashes; for one that is, the domain hash is
\* the bytes after the prefix and the message hash the bytes after those.
C19_SigningPayloadParsed ==
    sigPc = "done" =>
        IF EncodesSigLenBytes
        THEN /\ ~sigResult.err
             /\ sigResult.domainHash =
                    [i \in 1..HashLen |-> PayloadByte(SigPrefixLen + i)]
             /\ sigResult.messageHash =
                    [i \in 1..HashLen |-> PayloadByte(SigPrefixLen + HashLen + i)]
        ELSE sigResult = NoHashes

\* ------------------------------------------------------------------ main
\* Signing payloads on the command line: none, a full one, one a digit short.
MainPayloads == {<<>>, <<49, 49, 49, 97, 49, 49>>, <<49, 49, 49, 49, 49>>}
\* What the script prints: one of the payloads between the markers.
MainScriptOutputs == {Prefix \o t \o Suffix : t \in MainPayloads}
\* The command line (a flag that is a string other than the payload and the
\* format is given, TRUE, or left empty).
MainFlags ==
    [rpcURL : BOOLEAN, useExtractedData : BOOLEAN, signingData : MainPayloads,
     senderAddress : BOOLEAN, outputFormat : {"tool", "json", "xml"}, outputFile : BOOLEAN]

\* The document built into the binary: contracts.yaml, or one with a
\* reference to a layout that is not there.
MainDocs == {EmbeddedDoc, Document(AllLayouts, SlotsRef("gnosis-safe"), SlotsRef("missing"))}

InitMain ==
    /\ mainPc = "start"
    /\ flags \in MainFlags
    /\ failure = ""
    /\ exitStatus = Running
    /\ doc \in MainDocs
    /\ cfgPhase = "embedded"
    /\ cfg = NoConfig
    /\ chainId = "1"
    /\ lookupAddr = <<>>
    /\ lookupResult = DEFAULT_CONTRACT
    /\ IdleStore /\ IdleRender /\ IdleSlot /\ IdleDecode /\ IdleSig
    /\ IdleSim /\ IdleHist

\* os.Exit(status), log.Fatal (status 1), a panic (status 2), or the return
\* from main (status 0).
Exit(status, what) ==
    /\ mainPc' = "exited"
    /\ exitStatus' = status
    /\ failure' = what
Goto(pc) ==
    /\ mainPc' = pc
    /\ UNCHANGED <<exitStatus, failure>>
MainFrame == UNCHANGED <<flags, storeVars, cfgVars, renderVars, slotVars, decodeVars,
                         callVars, sigVars, simVars, histVars>>

MainCheckRPC ==
    /\ mainPc = "start"
    /\ IF ~flags.rpcURL THEN Exit(1, "missing RPC endpoint") ELSE Goto("dial")
    /\ MainFrame

MainDial ==
    /\ mainPc = "dial"
    /\ \E err \in BOOLEAN :
         IF err THEN Exit(1, "RPC connection failure") ELSE Goto("chainID")
    /\ MainFrame

MainChainID ==
    /\ mainPc = "chainID"
    /\ \E err \in BOOLEAN :
         IF err THEN Exit(1, "chain-ID fetch failure") ELSE Goto("input")
    /\ MainFrame

\* The hashes and the query values: from the flags, or from the script.
MainInput ==
    /\ mainPc = "input"
    /\ IF flags.useExtractedData
       THEN IF flags.signingData = <<>> \/ ~flags.senderAddress
            THEN Exit(1, "missing signing data or sender")
            ELSE IF parseSigningData(flags.signingData).err
            THEN Exit(1, "malformed signing payload")
            ELSE Goto("createTx")
       ELSE \E output \in MainScriptOutputs, linkErr \in BOOLEAN :
              IF parseInput(output, Prefix, Suffix).err
              THEN Exit(1, "malformed signing payload")
              ELSE IF linkErr THEN Exit(1, "link parse failure")
              ELSE Goto("createTx")
    /\ MainFrame

\* CreateTransaction returns no error; it panics when a query value it
\* indexes is missing.
MainCreateTx ==
    /\ mainPc = "createTx"
    /\ \E missing \in BOOLEAN :
         IF missing THEN Exit(2, "transaction construction failure") ELSE Goto("newEVM")
    /\ MainFrame

MainNewEVM ==
    /\ mainPc = "newEVM"
    /\ \E err \in BOOLEAN :
         IF err THEN Exit(1, "EVM creation failure") ELSE Goto("simulate")
    /\ MainFrame

MainSimulate ==
    /\ mainPc = "simulate"
    /\ \E outcome \in {"ok", "revert", "error"} :
         IF outcome = "revert" THEN Exit(1, "execution revert")
         ELSE IF outcome = "error" THEN Exit(1, "simulation failure")
         ELSE Goto("targetSafe")
    /\ MainFrame

MainTargetSafe ==
    /\ mainPc = "targetSafe"
    /\ \E err \in BOOLEAN :
         IF err THEN Exit(1, "target safe failure") ELSE Goto("generator")
    /\ MainFrame

\* NewFileGenerator: loadConfig on the embedded document.
MainGenerator ==
    /\ mainPc = "generator"
    /\ LET r == loadConfig(doc) IN
         /\ cfg' = r.cfg
         /\ cfgPhase' = IF r.err THEN "failed" ELSE "loaded"
         /\ IF r.err THEN Exit(1, "file generator failure") ELSE Goto("build")
    /\ UNCHANGED <<flags, doc, chainId, lookupAddr, lookupResult, storeVars, renderVars,
                   slotVars, decodeVars, callVars, sigVars, simVars, histVars>>

MainBuild ==
    /\ mainPc = "build"
    /\ IF flags.outputFormat \notin {"tool", "json"}
       THEN Exit(1, "invalid output format")
       ELSE \E err \in BOOLEAN :
              IF err THEN Exit(1, "report generation failure") ELSE Goto("marshal")
    /\ MainFrame

MainMarshal ==
    /\ mainPc = "marshal"
    /\ \E err \in BOOLEAN :
         IF err THEN Exit(1, "report marshalling failure") ELSE Goto("write")
    /\ MainFrame

\* os.WriteFile when -o is given, else the report goes to standard output.
\* A write error is printed and main returns.
MainWrite ==
    /\ mainPc = "write"
    /\ IF flags.outputFile
       THEN \E err \in BOOLEAN :
              IF err THEN Exit(0, "report write failure") ELSE Exit(0, "")
       ELSE Exit(0, "")
    /\ MainFrame

NextMain ==
    \/ MainCheckRPC
    \/ MainDial
    \/ MainChainID
    \/ MainInput
    \/ MainCreateTx
    \/ MainNewEVM
    \/ MainSimulate
    \/ MainTargetSafe
    \/ MainGenerator
    \/ MainBuild
    \/ MainMarshal
    \/ MainWrite

SpecMain == InitMain /\ [][NextMain]_vars

ListedFailures ==
    {"missing RPC endpoint", "RPC connection failure", "chain-ID fetch failure",
     "malformed signing payload", "transaction construction failure",
     "execution revert", "report write failure"}

\* C20: the process ends with a non-zero exit status when it met a missing
\* RPC endpoint, an RPC connection failure, a chain-ID fetch failure, a
\* malformed or wrong-length signing payload, a transaction construction
\* failure, an execution revert or a failure to write the report file.
C20_ListedFailureExitsNonZero ==
    (mainPc = "exited" /\ failure \in ListedFailures) => exitStatus # 0

\* Overrides have been applied (NewEVM returned) or the engine call made.
SimulationBegun ==
    \/ mainPc \in {"simulate", "targetSafe", "generator", "build", "marshal", "write"}
    \/ failure \in {"execution revert", "simulation failure", "target safe failure",
                    "file generator failure"}

\* C21: within a run the configuration is loaded before any simulation work
\* begins: once the overrides are applied or the engine call is made the
\* configuration is loaded, and a load failure ends the process before that.
C21_ConfigLoadedBeforeSimulation ==
    /\ SimulationBegun => cfgPhase = "loaded"
    /\ cfgPhase = "failed" => ~SimulationBegun

\* C22: SimulateTransaction yields the diff set or an error, never both: a
\* failed engine call gives an error and no list; a successful one gives no
\* error and every StateDiff of the store, one per address.
C22_DiffsOrError ==
    simResult # NoResult =>
        /\ (simResult.err # "") <=> simResult.isNil
        /\ simResult.isNil => simResult.diffs = <<>>
        /\ simResult.err = "" =>
              /\ Len(simResult.diffs) = Cardinality(DOMAIN diffs)
              /\ \A a \in DOMAIN diffs :
                    \E i \in DOMAIN simResult.diffs :
                        /\ simResult.diffs[i] = diffs[a]
                        /\ simResult.diffs[i].Address = a

\* A successful call after the balances of two addresses were changed.
C22_Witness ==
    /\ simResult # NoResult
    /\ simResult.err = ""
    /\ Len(simResult.diffs) = 2

\* C23: register semantics of storage: after setStorage(a, k, v) or an
\* override of (a, k) to v, every getStorage(a, k) returns v until the next
\* write to the same (a, k), whatever the remote value is and whatever is
\* written or read elsewhere.
C23_RegisterSemantics ==
    \A slot \in DOMAIN lastWrite : \A fetch \in FetchOutcomes :
        GetState(DB, slot[1], slot[2], fetch).value = lastWrite[slot]

\* The StateChanges of the JSON report on the store's diffs (the entries do
\* not depend on the order the maps are ranged over, the sorts fix it).
Report ==
    LET order == CHOOSE o \in IterOrders(diffs) : TRUE
    IN  convertDiffsToJSON(ReportGenerator, GetStateDiffs(diffs, order.addrs), order.keys)

\* C24: end-to-end de-noising: a slot written during the simulation appears
\* in the rendered report if and only if its final value differs from the
\* value it had before its first write.
C24_ReportedIffChanged ==
    \A slot \in DOMAIN firstBefore :
        RendersChange(Report, slot[1], slot[2]) <=> lastWrite[slot] # firstBefore[slot]

\* The slots the recorded override list names exactly once, with their value.
SeededOnce ==
    {e \in OverrideEntries : \A f \in OverrideEntries : (f[1] = e[1] /\ f[2] = e[2]) => f = e}

\* C25: an override-seeding write performs no remote read: applyOverrides
\* issues no remote storage fetch, and the value recorded as valueBefore and
\* cached for an overridden (address, slot) is the literal override value.
C25_SeedingReadsNothingRemote ==
    [][SetOverridesList =>
          /\ fetched' = fetched
          /\ \A e \in SeededOnce' :
                /\ HasStorageDiff(diffs', e[1], e[2])
                /\ diffs'[e[1]].StorageDiffs[e[2]].ValueBefore = e[3]
                /\ getStorageCacheKey(e[1], e[2]) \in DOMAIN cache']_vars

Setters == {"AddBalance", "SubBalance", "SetState", "SetNonce"}

\* C26: read-through, write-through caching without eviction: a key fetched
\* successfully or written is in the cache afterwards, a call that finds its
\* key in the cache issues no remote fetch (and a read then leaves the cache
\* as it is), and no operation removes a cache entry.
C26_CacheNeverEvicts ==
    [][/\ DOMAIN cache \subseteq DOMAIN cache'
       /\ (steps' = steps + 1 /\ lastCall'.op \in Getters \cup Setters) =>
            /\ lastCall'.hit <=> lastCall'.ck \in DOMAIN cache
            /\ lastCall'.hit => fetched' = fetched
            /\ (lastCall'.hit /\ lastCall'.op \in Getters) => cache' = cache
            /\ (lastCall'.op \in Setters \/ ~lastCall'.failed) =>
                  lastCall'.ck \in DOMAIN cache']_vars

\* A nonce was read from the cache: the node was asked for it once, by the
\* earlier call that filled the entry.
C26_Witness ==
    /\ lastCall.op = "GetNonce"
    /\ lastCall.hit
    /\ steps = 2
    /\ \E a \in Addrs : fetched = {<<"NonceAt", a, 0>>}

\* C27: after any sequence of addBalance/subBalance calls on an address, the
\* StateDiff's balanceBefore is the balance read at the first such call,
\* later calls never change it, and balanceAfter is both what getBalance
\* returns and balanceBefore plus the amounts added minus the amounts
\* subtracted, modulo the word size.
C27_BalanceBeforeAndAfter ==
    \A a \in DOMAIN balanceLog :
        /\ a \in DOMAIN diffs
        /\ diffs[a].BalanceBefore # Nil /\ diffs[a].BalanceAfter # Nil
        /\ heap[diffs[a].BalanceBefore] = balanceLog[a].first
        /\ heap[diffs[a].BalanceAfter] = (balanceLog[a].first + balanceLog[a].net) % BalanceMod
        /\ \A fetch \in FetchOutcomes :
              LET r == GetBalance(DB, heap, a, fetch) IN
              r.heap[r.ptr] = heap[diffs[a].BalanceAfter]

\* Two changes of one address whose balance was 1: 2 subtracted (wrapping
\* below zero), then 1 added.
C27_Witness ==
    /\ lastCall.op = "AddBalance"
    /\ steps = 2
    /\ balanceLog = (lastCall.addr :> [first |-> 1, net |-> BalanceMod - 1])
    /\ heap[diffs[lastCall.addr].BalanceAfter] = 0

\* C28: after any interleaving of recordPreimage and setStorage calls, every
\* StorageDiff whose key has a preimage in the registry carries that preimage
\* (the one the registry holds now), also when the preimage was recorded
\* after the last write of the slot.
C28_StorageDiffCarriesPreimage ==
    \A a \in DOMAIN diffs : \A k \in DOMAIN diffs[a].StorageDiffs :
        k \in DOMAIN preimages => diffs[a].StorageDiffs[k].Preimage = preimages[k]

\* C29: getSlot terminates and returns a slot for every slot key, slot table
\* and preimage registry, cyclic registries included.  The loop keeps no
\* state but the current string, so it runs for ever exactly when a round
\* starts from a hash an earlier round started from: that never happens.
C29_GetSlotTerminates ==
    slotPc = "loop" => \A i \in DOMAIN slotChain : slotChain[i] # HexToHash(slotCur)

\* C30: the methods not relevant to diffing are no-ops with fixed results:
\* Exist returns true, Empty false, Snapshot 0, and the access-list,
\* transient-storage, self-destruct, log and RevertToSnapshot calls leave the
\* cache, the diff map and the preimage registry as they were, so that writes
\* made before a RevertToSnapshot stay in the diff set.
C30_NoOpsChangeNothing ==
    [][(steps' = steps + 1 /\ lastCall'.op \in NoOps)
        => /\ cache' = cache
           /\ diffs' = diffs
           /\ preimages' = preimages
           /\ lastCall'.op = "Exist" => lastCall'.ret = TRUE
           /\ lastCall'.op = "Empty" => lastCall'.ret = FALSE
           /\ lastCall'.op = "Snapshot" => lastCall'.ret = 0]_vars

\* RevertToSnapshot was called after a write, and the write is still in the
\* diff set and in the cache.
C30_Witness ==
    /\ lastCall.op = "RevertToSnapshot"
    /\ steps = 2
    /\ \E a \in DOMAIN diffs : DOMAIN diffs[a].StorageDiffs # {}
    /\ cache # EmptyMap

====
